---- MODULE Spec2Model ----
(***************************************************************************)
(* Verification model of the payroll reconciliation core:                  *)
(*   - Reconciler.reconcile          (src/core/reconcile/Reconciler.ts)    *)
(*   - PrefeituraExtractor.extract   (src/core/prefeitura/...)             *)
(*   - extractFromCsvReport, parseTextReport, extractFromPdf,              *)
(*     extractFromDocx                                                     *)
(* Monetary amounts are integers in centavos (400.49 is 40049).            *)
(***************************************************************************)
EXTENDS Integers, Sequences, FiniteSets, TLC

VARIABLES
    bankRows,    \* reconcile: rows of the bank file
    prefRows,    \* reconcile: rows of the authority (prefeitura) file
    recResult,   \* reconcile: the ReconciliationResult, Pending before the call
    text,        \* extractFromCsvReport / parseTextReport: the document
    csvResult,   \* result of extractFromCsvReport(text)
    textResult,  \* result of parseTextReport(text)
    file,        \* PrefeituraExtractor.extract: the File chosen by the user
    extractor,   \* which revision of PrefeituraExtractor is deployed
    extResult,   \* the PrefeituraExtractionResult, Pending before the call
    csvLines,    \* detectDelimiter: the lines of a delimited file, as characters
    delimiterResult, \* result of detectDelimiter(lines)
    splitFields, \* splitCsvLine of every line by the detected delimiter
    redetected,  \* result of detectDelimiter on the re-joined fields
    sheetRows,   \* detectSheetColumns: the grid of cells of a worksheet
    columnResult, \* result of detectSheetColumns(sheetRows)
    screen,      \* App: the screen shown
    uploadState, \* App: whether both files are parsed and held
    appResult,   \* App: the stored ReconciliationResult, if any
    excelBlob,   \* App: the stored Excel blob, if any
    percent,     \* App: progress shown
    currentStep, \* App: step shown
    cancelledRef, \* App: cancelledRef.current
    pipelines    \* App: the calls of runPipeline scheduled so far

delimVars == <<csvLines, delimiterResult, splitFields, redetected>>

sheetVars == <<sheetRows, columnResult>>

uiState == <<screen, uploadState, appResult, excelBlob, percent, currentStep>>

uiVars == <<uiState, cancelledRef, pipelines>>

coreVars == <<bankRows, prefRows, recResult, text, csvResult, textResult,
              file, extractor, extResult>>

vars == <<coreVars, delimVars, sheetVars, uiVars>>

(***************************************************************************)
(* Generic helpers                                                         *)
(***************************************************************************)
Abs(x) == IF x < 0 THEN -x ELSE x

Min(a, b) == IF a <= b THEN a ELSE b

Max(a, b) == IF a >= b THEN a ELSE b

SeqsUpTo(S, n) == UNION {[1..k -> S] : k \in 0..n}

NonEmptySeqsUpTo(S, n) == UNION {[1..k -> S] : k \in 1..n}

KeepAt(s, i) == s

RemoveAt(s, i) == SubSeq(s, 1, i - 1) \o SubSeq(s, i + 1, Len(s))

\* The result variables hold Pending until their operation has run.
Pending == [done |-> FALSE]

(***************************************************************************)
(* Bounds and input catalogues of the reconciliation model                 *)
(***************************************************************************)
MaxRows == 2

\* Employee keys "85-1", "99-1" as (base, sequence) pairs.
Matriculas == {<<85, 1>>, <<99, 1>>}

\* Amounts in centavos: 100.00, 100.01, 100.02, 105.00, 210.00
Valores == {10000, 10001, 10002, 10500, 21000}

\* Rows the inputs are drawn from: the first key with every amount, the
\* second with two amounts 0.02 apart.
RowInputs ==
    {[matricula |-> <<85, 1>>, valor |-> v] : v \in Valores}
        \cup {[matricula |-> <<99, 1>>, valor |-> v] : v \in {10000, 10002}}

(***************************************************************************)
(* Reconciler                                                              *)
(***************************************************************************)
\* const TOLERANCE = 0.01, in centavos
TOLERANCE == 1

\* Keys of a Map in insertion order: first occurrence of each matricula.
RECURSIVE InsertionOrder(_, _)
InsertionOrder(seq, acc) ==
    IF seq = <<>> THEN acc
    ELSE IF \E j \in 1..Len(acc) : acc[j] = Head(seq)
         THEN InsertionOrder(Tail(seq), acc)
         ELSE InsertionOrder(Tail(seq), Append(acc, Head(seq)))

RECURSIVE MapSeq(_, _)
MapSeq(rows, field) ==
    IF rows = <<>> THEN <<>>
    ELSE <<Head(rows)[field]>> \o MapSeq(Tail(rows), field)

\* private groupByMatricula(rows): Map<string, Money[]>
\* keys: insertion order of the Map; get: the amounts of a key in row order.
RECURSIVE ValoresDe(_, _)
ValoresDe(rows, m) ==
    IF rows = <<>> THEN <<>>
    ELSE IF Head(rows).matricula = m
         THEN <<Head(rows).valor>> \o ValoresDe(Tail(rows), m)
         ELSE ValoresDe(Tail(rows), m)

groupByMatricula(rows) ==
    [keys |-> InsertionOrder(MapSeq(rows, "matricula"), <<>>),
     rows |-> rows]

SemEvento(row) == "meta" \notin DOMAIN row \/ row.meta.evento = <<>>

MapGetSemEvento(map, m) == ValoresDe(SelectSeq(map.rows, SemEvento), m)

MapGet(map, m) == ValoresDe(map.rows, m)

\* Math.round(diff * 100) / 100 <= TOLERANCE, diff = Math.abs(v - valorBanco).
\* With amounts in whole centavos diff * 100 is the integer number of centavos
\* (up to binary noise far below 0.5), so the rounding yields that integer.
WithinToleranceStrict(v, valorBanco) == Abs(v - valorBanco) < TOLERANCE

WithinTolerance(v, valorBanco) == Abs(v - valorBanco) <= TOLERANCE

\* A scan that never finds a match.
findIndexNenhum(prefPendente, valorBanco) == 0

\* prefPendente.findIndex(...): first index within tolerance, 0 for -1.
findIndex(prefPendente, valorBanco) ==
    IF \E j \in 1..Len(prefPendente) : WithinTolerance(prefPendente[j], valorBanco)
    THEN CHOOSE j \in 1..Len(prefPendente) :
            /\ WithinTolerance(prefPendente[j], valorBanco)
            /\ \A k \in 1..(j - 1) : ~WithinTolerance(prefPendente[k], valorBanco)
    ELSE 0

\* Fase 1: for (i = length - 1; i >= 0; i--), indices here are 1-based.
\* st = [banco, pref, items, bateu]; the step taken when matchIndex !== -1.
consumirMatch(m, i, st, matchIndex) ==
    [banco |-> RemoveAt(st.banco, i),
     pref  |-> RemoveAt(st.pref, matchIndex),
     items |-> Append(st.items,
                [matricula |-> m,
                 valorBanco |-> st.banco[i],
                 valorPrefeitura |-> st.pref[matchIndex],
                 status |-> "bateu"]),
     bateu |-> st.bateu + 1]

RECURSIVE Fase1(_, _, _)
Fase1(m, i, st) ==
    IF i < 1 THEN st
    ELSE IF findIndex(st.pref, st.banco[i]) # 0
         THEN Fase1(m, i - 1,
                consumirMatch(m, i, st, findIndex(st.pref, st.banco[i])))
         ELSE Fase1(m, i - 1, st)

\* Array.prototype.sort((a, b) => a - b): ascending numeric order.
RECURSIVE InsertSorted(_, _)
InsertSorted(x, s) ==
    IF s = <<>> THEN <<x>>
    ELSE IF x < Head(s) THEN <<x>> \o s
         ELSE <<Head(s)>> \o InsertSorted(x, Tail(s))

RECURSIVE SortAsc(_)
SortAsc(s) ==
    IF s = <<>> THEN <<>>
    ELSE InsertSorted(s[Len(s)], SortAsc(SubSeq(s, 1, Len(s) - 1)))

NoSort(s) == s

\* bancoPendente.sort((a, b) => a - b) / prefPendente.sort((a, b) => a - b)
sortPendente(s) == SortAsc(s)

\* Fase 2: pair the sorted leftovers by index as 'divergente'.
divergentes(m, banco, pref, pairsCount) ==
    [i \in 1..pairsCount |->
        [matricula |-> m,
         valorBanco |-> banco[i],
         valorPrefeitura |-> pref[i],
         status |-> "divergente",
         obs |-> banco[i] - pref[i]]]

\* Fase 3 / Fase 4: final leftovers of each side.
soNoBancoComPrefeitura(m, banco) ==
    [i \in 1..Len(banco) |->
        [matricula |-> m, valorBanco |-> banco[i], valorPrefeitura |-> 0,
         status |-> "so_no_banco"]]

soNoBanco(m, banco) ==
    [i \in 1..Len(banco) |->
        [matricula |-> m, valorBanco |-> banco[i], status |-> "so_no_banco"]]

soNaPrefeitura(m, pref) ==
    [i \in 1..Len(pref) |->
        [matricula |-> m, valorPrefeitura |-> pref[i], status |-> "so_na_prefeitura"]]

\* Fase 2 applies when both leftover lists are non-empty.
temSobras(f1) == Len(f1.banco) > 0 /\ Len(f1.pref) > 0

\* A pairing that stops after the first pair.
pairsCountUm(f1) == IF temSobras(f1) THEN 1 ELSE 0

pairsCountDe(f1) ==
    IF temSobras(f1) THEN Min(Len(f1.banco), Len(f1.pref)) ELSE 0

\* Items and counter increments of Fases 2 to 4, given the leftover lists as
\* they stand after the optional sort.
emitirSobras(m, f1, banco, pref, pairsCount) ==
    [items |-> f1.items \o divergentes(m, banco, pref, pairsCount)
                \o soNoBanco(m, SubSeq(banco, pairsCount + 1, Len(banco)))
                \o soNaPrefeitura(m, SubSeq(pref, pairsCount + 1, Len(pref))),
     bateu |-> f1.bateu,
     divergente |-> pairsCount,
     so_no_banco |-> Len(banco) - pairsCount,
     so_na_prefeitura |-> Len(pref) - pairsCount]

fases2a4(m, f1) ==
    IF temSobras(f1)
    THEN emitirSobras(m, f1, sortPendente(f1.banco), sortPendente(f1.pref),
                      pairsCountDe(f1))
    ELSE emitirSobras(m, f1, f1.banco, f1.pref, 0)

\* Body of `for (const matricula of todasMatriculas)`: the items pushed for one
\* key and the increments of the four counters.
processMatricula(m, valoresBanco, valoresPref) ==
    fases2a4(m, Fase1(m, Len(valoresBanco),
                [banco |-> valoresBanco, pref |-> valoresPref,
                 items |-> <<>>, bateu |-> 0]))

somar(acc, r) ==
    [items |-> acc.items \o r.items,
     bateu |-> acc.bateu + r.bateu,
     divergente |-> acc.divergente + r.divergente,
     so_no_banco |-> acc.so_no_banco + r.so_no_banco,
     so_na_prefeitura |-> acc.so_na_prefeitura + r.so_na_prefeitura]

\* Accumulation over todasMatriculas (a Set: insertion order, bank keys first).
RECURSIVE processAll(_, _, _, _)
processAll(keys, bankBy, prefBy, acc) ==
    IF keys = <<>> THEN acc
    ELSE processAll(Tail(keys), bankBy, prefBy,
            somar(acc, processMatricula(Head(keys), MapGet(bankBy, Head(keys)),
                                        MapGet(prefBy, Head(keys)))))

\* a.status.localeCompare(b.status) over the four status names:
\* bateu < divergente < so_na_prefeitura < so_no_banco
StatusRank(status) ==
    CASE status = "bateu" -> 1
      [] status = "divergente" -> 2
      [] status = "so_na_prefeitura" -> 3
      [] status = "so_no_banco" -> 4

\* Comparator of items.sort: numeric base of the matricula, then status.
compareItems(a, b) ==
    IF a.matricula[1] # b.matricula[1]
    THEN a.matricula[1] - b.matricula[1]
    ELSE StatusRank(a.status) - StatusRank(b.status)

\* Array.prototype.sort is stable: an item goes after the items it does not
\* precede.
RECURSIVE InsertItem(_, _)
InsertItem(x, s) ==
    IF s = <<>> THEN <<x>>
    ELSE IF compareItems(x, Head(s)) < 0 THEN <<x>> \o s
         ELSE <<Head(s)>> \o InsertItem(x, Tail(s))

sortItemsSemOrdem(s) == s

RECURSIVE sortItems(_)
sortItems(s) ==
    IF s = <<>> THEN <<>>
    ELSE InsertItem(s[Len(s)], sortItems(SubSeq(s, 1, Len(s) - 1)))

\* private detectCompetencia(rows): the most frequent competencia; entries are
\* visited in insertion order and replaced only by a strictly larger count.
\* An optional field (meta.competencia, meta.evento) is <<>> when undefined and
\* <<x>> when it holds x.
RECURSIVE competenciasDe(_)
competenciasDe(rows) ==
    IF rows = <<>> THEN <<>>
    ELSE IF "meta" \in DOMAIN Head(rows) /\ Head(rows).meta.competencia # <<>>
         THEN Head(rows).meta.competencia \o competenciasDe(Tail(rows))
         ELSE competenciasDe(Tail(rows))

CountOf(seq, x) == Cardinality({i \in 1..Len(seq) : seq[i] = x})

RECURSIVE maxEntry(_, _, _)
maxEntry(entries, comps, best) ==
    IF entries = <<>> THEN best
    ELSE IF CountOf(comps, Head(entries)) > best.maxCount
         THEN maxEntry(Tail(entries), comps,
                [maxCount |-> CountOf(comps, Head(entries)),
                 competencia |-> <<Head(entries)>>])
         ELSE maxEntry(Tail(entries), comps, best)

detectCompetenciaPrimeira(rows) ==
    IF competenciasDe(rows) = <<>> THEN <<>> ELSE <<competenciasDe(rows)[1]>>

\* Result: <<c>> when a competencia was found, <<>> for undefined.
\* Object.entries(counts) visits the keys in insertion order: a key of the
\* form MM/AAAA is never an integer index.
detectCompetenciaRows(rows) ==
    maxEntry(InsertionOrder(competenciasDe(rows), <<>>), competenciasDe(rows),
             [maxCount |-> 0, competencia |-> <<>>]).competencia

detectExtracaoQualidadeSemVazio(rows, diagnostics) ==
    IF \E i \in 1..Len(diagnostics) : diagnostics[i].severity = "error"
    THEN "parcial"
    ELSE "completa"

\* private detectExtracaoQualidade(prefRows, diagnostics)
detectExtracaoQualidade(rows, diagnostics) ==
    IF Len(rows) = 0 THEN "falhou"
    ELSE IF \E i \in 1..Len(diagnostics) : diagnostics[i].severity = "error"
         THEN "parcial"
         ELSE "completa"

\* Math.round(x): nearest integer, halves up; x = num / den >= 0.
RoundDiv(num, den) == (2 * num + den) \div (2 * den)

taxaMatchSemGuarda(bateuCount, totalItems) ==
    IF totalItems > 0 THEN RoundDiv(bateuCount * 10000, totalItems) ELSE 10000

\* Math.round(taxaMatch * 100) / 100 with taxaMatch = (bateu / totalItems) * 100,
\* kept in hundredths of a percent (100% is 10000).
taxaMatchDe(bateuCount, totalItems) ==
    IF totalItems > 0 THEN RoundDiv(bateuCount * 10000, totalItems) ELSE 0

todasMatriculasDe(bank, pref) ==
    InsertionOrder(groupByMatricula(bank).keys \o groupByMatricula(pref).keys,
                   <<>>)

totalItemsDe(acc) ==
    acc.bateu + acc.divergente + acc.so_no_banco + acc.so_na_prefeitura

\* The summary, the sorted items and the summary diagnostic, from the
\* counters and items accumulated by the loop. detectExtracaoQualidade is
\* called before the summary diagnostic is pushed, with the empty list.
montarResultado(bank, pref, acc) ==
    [done |-> TRUE,
     summary |->
        [competencia |-> detectCompetenciaRows(bank \o pref),
         extracao |-> detectExtracaoQualidade(pref, <<>>),
         counts |-> [bateu |-> acc.bateu,
                     so_no_banco |-> acc.so_no_banco,
                     so_na_prefeitura |-> acc.so_na_prefeitura,
                     divergente |-> acc.divergente,
                     diagnostico |-> 0],
         taxaMatch |-> taxaMatchDe(acc.bateu, totalItemsDe(acc))],
     items |-> sortItems(acc.items),
     diagnostics |->
        <<[severity |-> "info", code |-> "reconcile_summary",
           details |-> [totalMatriculas |-> Len(todasMatriculasDe(bank, pref)),
                        totalBankRows |-> Len(bank),
                        totalPrefRows |-> Len(pref),
                        totalItems |-> totalItemsDe(acc),
                        taxaMatch |-> taxaMatchDe(acc.bateu, totalItemsDe(acc))]]>>]

\* reconcile(bankRows, prefRows): ReconciliationResult
reconcile(bank, pref) ==
    montarResultado(bank, pref,
        processAll(todasMatriculasDe(bank, pref), groupByMatricula(bank),
                   groupByMatricula(pref),
                   [items |-> <<>>, bateu |-> 0, divergente |-> 0,
                    so_no_banco |-> 0, so_na_prefeitura |-> 0]))

(***************************************************************************)
(* Reconciliation: state machine                                           *)
(***************************************************************************)
\* Variables of the other operations, unused by the reconciliation runs.
IdleParsing ==
    /\ text = <<<<>>>>
    /\ csvResult = Pending
    /\ textResult = Pending

IdleRouter ==
    /\ file = <<>>
    /\ extractor = "rev1"
    /\ extResult = Pending

IdleReconcile ==
    /\ bankRows = <<>>
    /\ prefRows = <<>>
    /\ recResult = Pending

IdleDelimiter ==
    /\ csvLines = <<<<>>>>
    /\ delimiterResult = Pending
    /\ splitFields = Pending
    /\ redetected = Pending

IdleSheet ==
    /\ sheetRows = <<>>
    /\ columnResult = Pending

IdleApp ==
    /\ screen = "upload"
    /\ uploadState = FALSE
    /\ appResult = FALSE
    /\ excelBlob = FALSE
    /\ percent = 0
    /\ currentStep = 0
    /\ cancelledRef = FALSE
    /\ pipelines = <<>>

InitReconcile ==
    /\ bankRows \in SeqsUpTo(RowInputs, MaxRows)
    /\ prefRows \in SeqsUpTo(RowInputs, MaxRows)
    /\ recResult = Pending
    /\ IdleParsing
    /\ IdleRouter
    /\ IdleDelimiter
    /\ IdleSheet
    /\ IdleApp

Reconcile ==
    /\ ~recResult.done
    /\ recResult' = reconcile(bankRows, prefRows)
    /\ UNCHANGED <<bankRows, prefRows, text, csvResult, textResult,
                   file, extractor, extResult, delimVars, sheetVars, uiVars>>

NextReconcile == Reconcile

SpecReconcile == InitReconcile /\ [][NextReconcile]_vars

(***************************************************************************)
(* Properties of Reconciler.reconcile                                      *)
(***************************************************************************)
Counts == recResult.summary.counts

Items == recResult.items

ItemsOf(m) == {i \in 1..Len(Items) : Items[i].matricula = m}

HasBanco(item) == "valorBanco" \in DOMAIN item

HasPrefeitura(item) == "valorPrefeitura" \in DOMAIN item

\* C1: matching conservation. In every result 2*matched + 2*divergent +
\* bankOnly + authorityOnly equals the number of input rows of both sides,
\* and the items carry exactly one bank amount per bank row and one authority
\* amount per authority row.
C1_Conservation ==
    recResult.done =>
        /\ 2 * Counts.bateu + 2 * Counts.divergente + Counts.so_no_banco
             + Counts.so_na_prefeitura = Len(bankRows) + Len(prefRows)
        /\ Cardinality({i \in 1..Len(Items) : HasBanco(Items[i])}) = Len(bankRows)
        /\ Cardinality({i \in 1..Len(Items) : HasPrefeitura(Items[i])})
             = Len(prefRows)

C1_Witness ==
    /\ recResult.done
    /\ Counts.bateu >= 1
    /\ Counts.so_no_banco >= 1
    /\ Counts.so_na_prefeitura >= 1

\* C2: tolerance boundary. A key with one bank amount and one authority amount
\* yields one item: matched when the amounts differ by at most 0.01 (either
\* direction), divergent when they differ by 0.02.
SingleStatus(m, status) ==
    /\ Cardinality(ItemsOf(m)) = 1
    /\ \A i \in ItemsOf(m) : Items[i].status = status

C2_ToleranceBoundary ==
    recResult.done =>
        \A m \in Matriculas :
            LET b == ValoresDe(bankRows, m)
                p == ValoresDe(prefRows, m)
            IN  (Len(b) = 1 /\ Len(p) = 1) =>
                    /\ (Abs(b[1] - p[1]) = 1 => SingleStatus(m, "bateu"))
                    /\ (Abs(b[1] - p[1]) = 0 => SingleStatus(m, "bateu"))
                    /\ (Abs(b[1] - p[1]) = 2 => SingleStatus(m, "divergente"))

C2_Witness ==
    /\ recResult.done
    /\ Len(bankRows) = 2
    /\ Len(prefRows) = 2
    /\ \E m1, m2 \in Matriculas :
          /\ Len(ValoresDe(bankRows, m1)) = 1
          /\ Len(ValoresDe(prefRows, m1)) = 1
          /\ Abs(ValoresDe(bankRows, m1)[1] - ValoresDe(prefRows, m1)[1]) = 1
          /\ Len(ValoresDe(bankRows, m2)) = 1
          /\ Len(ValoresDe(prefRows, m2)) = 1
          /\ Abs(ValoresDe(bankRows, m2)[1] - ValoresDe(prefRows, m2)[1]) = 2

\* C3: divergence pairing is by rank. Among the divergent items of one key a
\* smaller bank amount is never paired with a larger authority amount than a
\* larger bank amount is (no crossing), and the amounts left over as bankOnly
\* or authorityOnly are never smaller than a paired amount of their side.
C3_RankPairing ==
    recResult.done =>
        \A i, j \in 1..Len(Items) :
            (Items[i].matricula = Items[j].matricula
                /\ Items[i].status = "divergente") =>
                /\ (Items[j].status = "divergente"
                      /\ Items[i].valorBanco < Items[j].valorBanco)
                    => Items[i].valorPrefeitura <= Items[j].valorPrefeitura
                /\ Items[j].status = "so_no_banco"
                    => Items[i].valorBanco <= Items[j].valorBanco
                /\ Items[j].status = "so_na_prefeitura"
                    => Items[i].valorPrefeitura <= Items[j].valorPrefeitura

\* Bank {100.00, 210.00} (given in descending order) against authority
\* {105.00, 100.02}: two divergent items of one key.
C3_Witness ==
    /\ recResult.done
    /\ \E i, j \in 1..Len(Items) :
          /\ Items[i].matricula = Items[j].matricula
          /\ Items[i].status = "divergente"
          /\ Items[j].status = "divergente"
          /\ Items[i].valorBanco < Items[j].valorBanco
          /\ Items[i].valorPrefeitura < Items[j].valorPrefeitura
    /\ bankRows[1].valor > bankRows[2].valor

\* C4: a bankOnly item has a bank amount and no authority amount, an
\* authorityOnly item has an authority amount and no bank amount, a matched or
\* divergent item has both.
C4_AmountFields ==
    recResult.done =>
        \A i \in 1..Len(Items) :
            /\ Items[i].status = "so_no_banco"
                => (HasBanco(Items[i]) /\ ~HasPrefeitura(Items[i]))
            /\ Items[i].status = "so_na_prefeitura"
                => (HasPrefeitura(Items[i]) /\ ~HasBanco(Items[i]))
            /\ Items[i].status \in {"bateu", "divergente"}
                => (HasBanco(Items[i]) /\ HasPrefeitura(Items[i]))

C4_Witness ==
    /\ recResult.done
    /\ \E i, j, k \in 1..Len(Items) :
          /\ Items[i].status = "so_no_banco"
          /\ Items[j].status = "so_na_prefeitura"
          /\ Items[k].status \in {"bateu", "divergente"}

\* C5: the match rate is matched / (matched + divergent + bankOnly +
\* authorityOnly) * 100 rounded to 2 decimals (it is the multiple of 0.01
\* nearest to the exact quotient), and 0 when the denominator is 0.
TotalItems ==
    Counts.bateu + Counts.divergente + Counts.so_no_banco
        + Counts.so_na_prefeitura

C5_MatchRate ==
    recResult.done =>
        /\ TotalItems = 0 => recResult.summary.taxaMatch = 0
        /\ TotalItems > 0 =>
             2 * Abs(recResult.summary.taxaMatch * TotalItems
                       - Counts.bateu * 10000) <= TotalItems

\* 1 matched of 3 items: 33.33
C5_Witness ==
    /\ recResult.done
    /\ Counts.bateu = 1
    /\ TotalItems = 3
    /\ recResult.summary.taxaMatch = 3333

(***************************************************************************)
(* Documents, lines and tokens                                             *)
(*                                                                         *)
(* A document is a sequence of lines (text.split(/\r?\n/)); a line is the  *)
(* sequence of the tokens its regular expressions can see, left to right:  *)
(*   [t |-> "key", key |-> <<85, 1>>]      85-1                            *)
(*   [t |-> "cpf", tail |-> <<393, 99>>]   000.281.393-99                  *)
(*   [t |-> "evento", code |-> digits]     Evento: 002 - CONSIGNADO        *)
(*   [t |-> "comp", forma, valor]          01/2026 or 012026               *)
(*   [t |-> "valor", kind, raw]            "400,49" | R$ 400,49 | 400,49   *)
(*   [t |-> "texto"]                       any other text                  *)
(* The empty sequence is a blank line. Digits and raw amounts are          *)
(* sequences of one-character strings.                                     *)
(***************************************************************************)
Digits == {"0", "1", "2", "3", "4", "5", "6", "7", "8", "9"}

IsDigit(c) == c \in Digits

DigitVal(c) ==
    CASE c = "0" -> 0 [] c = "1" -> 1 [] c = "2" -> 2 [] c = "3" -> 3
      [] c = "4" -> 4 [] c = "5" -> 5 [] c = "6" -> 6 [] c = "7" -> 7
      [] c = "8" -> 8 [] c = "9" -> 9

RECURSIVE NumberOf(_)
NumberOf(digits) ==
    IF digits = <<>> THEN 0
    ELSE 10 * NumberOf(SubSeq(digits, 1, Len(digits) - 1))
            + DigitVal(digits[Len(digits)])

\* raw matches \d{1,3}(\.\d{3})*,\d{2}
IsBRL(raw) ==
    /\ Len(raw) >= 4
    /\ raw[Len(raw) - 2] = ","
    /\ IsDigit(raw[Len(raw) - 1])
    /\ IsDigit(raw[Len(raw)])
    /\ (Len(raw) - 3) % 4 # 0
    /\ \A j \in 1..(Len(raw) - 3) :
          IF (Len(raw) - 3 - j + 1) % 4 = 0 THEN raw[j] = "." ELSE IsDigit(raw[j])

\* parseBRL(raw): the amount in centavos as <<v>>, or <<>> for null. A token
\* of the form 1.234,56 loses its thousands separators and its comma becomes
\* the decimal point.
parseBRL(raw) ==
    IF IsBRL(raw) THEN <<NumberOf(SelectSeq(raw, IsDigit))>> ELSE <<>>

\* Smallest index of a token whose type is in types, 0 when there is none.
IndexOfType(line, types) ==
    IF \E i \in 1..Len(line) : line[i].t \in types
    THEN CHOOSE i \in 1..Len(line) :
            /\ line[i].t \in types
            /\ \A k \in 1..(i - 1) : line[k].t \notin types
    ELSE 0

\* The key-shaped text \d{1,6}-\d{1,3} a token offers to an unanchored match:
\* a key token is one, and so are the last two groups of a CPF.
KeyShape(tok) == IF tok.t = "key" THEN tok.key ELSE tok.tail

RECURSIVE RawsOf(_, _)
RawsOf(line, kinds) ==
    IF line = <<>> THEN <<>>
    ELSE IF Head(line).t = "valor" /\ Head(line).kind \in kinds
         THEN <<Head(line).raw>> \o RawsOf(Tail(line), kinds)
         ELSE RawsOf(Tail(line), kinds)

\* raws.map(parseBRL).filter(v => v !== null)
RECURSIVE ParseAll(_)
ParseAll(raws) ==
    IF raws = <<>> THEN <<>>
    ELSE parseBRL(Head(raws)) \o ParseAll(Tail(raws))

IsPositive(v) == v > 0

\* COMPETENCIA_REGEX_FULL is tried on the whole line before
\* COMPETENCIA_REGEX_COMPACT; the result is <<"MM/AAAA">> or <<>>.
IndexOfComp(line, forma) ==
    IF \E i \in 1..Len(line) : line[i].t = "comp" /\ line[i].forma = forma
    THEN CHOOSE i \in 1..Len(line) :
            /\ line[i].t = "comp" /\ line[i].forma = forma
            /\ \A k \in 1..(i - 1) : ~(line[k].t = "comp" /\ line[k].forma = forma)
    ELSE 0

\* `${match[1]}/${match[2]}`
formatCompetencia(tok) == <<tok.mes, "/", tok.ano>>

matchCompetencia(line) ==
    IF IndexOfComp(line, "slash") # 0
    THEN <<formatCompetencia(line[IndexOfComp(line, "slash")])>>
    ELSE IF IndexOfComp(line, "compact") # 0
         THEN <<formatCompetencia(line[IndexOfComp(line, "compact")])>>
         ELSE <<>>

\* s.padStart(3, '0')
RECURSIVE padStart3(_)
padStart3(s) == IF Len(s) >= 3 THEN s ELSE padStart3(<<"0">> \o s)

\* parseInt(s, 10).toString(): the digits without leading zeros.
RECURSIVE stripZeros(_)
stripZeros(s) ==
    IF Len(s) > 1 /\ Head(s) = "0" THEN stripZeros(Tail(s)) ELSE s

(***************************************************************************)
(* extractFromCsvReport                                                    *)
(***************************************************************************)
\* EVENTO_REGEX = /Evento:\s*(\d{1,3})/i captures at most three digits.
eventoCsv(code) == padStart3(stripZeros(SubSeq(code, 1, Min(3, Len(code)))))

\* extractAllValores(line): quoted tokens, then R$ tokens, then bare pt-BR
\* tokens (the bare pattern also matches inside quotes and after R$); a raw
\* text already seen is skipped.
extractAllValores(line) ==
    ParseAll(InsertionOrder(
        RawsOf(line, {"aspas"}) \o RawsOf(line, {"rs"})
            \o SelectSeq(RawsOf(line, {"aspas", "rs", "br"}), IsBRL),
        <<>>))

\* chooseValue(valores): <<v>> or <<>> for null.
chooseValue(valores) ==
    IF Len(valores) = 0 THEN <<>>
    ELSE IF Len(valores) = 1 THEN <<valores[1]>>
    ELSE IF SelectSeq(valores, IsPositive) = <<>> THEN <<0>>
    ELSE <<SelectSeq(valores, IsPositive)[Len(SelectSeq(valores, IsPositive))]>>

\* extractMatricula(line, delimiter): anchored at the start of the line and
\* followed by a delimiter, else the leftmost key-shaped text anywhere.
extractMatricula(line) ==
    IF Len(line) > 1 /\ line[1].t = "key" THEN <<line[1].key>>
    ELSE IF IndexOfType(line, {"key", "cpf"}) # 0
         THEN <<KeyShape(line[IndexOfType(line, {"key", "cpf"})])>>
         ELSE <<>>

confidenceDe(valores) == IF Len(valores) = 1 THEN "high" ELSE "medium"

\* The NormalizedRow of a data line; linha is the index of the line in the
\* document (the line rawRef.raw copies).
novaRow(matricula, valor, st, valores, line, i) ==
    [source |-> "prefeitura",
     matricula |-> matricula,
     valor |-> valor,
     meta |-> [competencia |-> st.competenciaFound,
               evento |-> st.eventoAtual,
               confidence |-> confidenceDe(valores)],
     rawRef |-> [raw |-> line, linha |-> i]]

\* Loop state of extractFromCsvReport.
csvInicio ==
    [rows |-> <<>>, competenciaFound |-> <<>>, eventoAtual |-> <<>>,
     eventosVistos |-> {}, totalLines |-> 0, dataLinesDetected |-> 0,
     extractedRows |-> 0, discardedNoValue |-> 0, discardedNoMatricula |-> 0]

csvCompetenciaUltima(st, line) ==
    IF matchCompetencia(line) # <<>>
    THEN [st EXCEPT !.competenciaFound = matchCompetencia(line)]
    ELSE st

csvCompetencia(st, line) ==
    IF st.competenciaFound = <<>>
    THEN [st EXCEPT !.competenciaFound = matchCompetencia(line)]
    ELSE st

csvEvento(st, code) ==
    [st EXCEPT !.eventoAtual = <<eventoCsv(code)>>,
               !.eventosVistos = @ \cup {eventoCsv(code)}]

\* The data line of extractFromCsvReport without `discardedNoValue++`.
csvDadosSemContar(st, line, i, valores) ==
    IF Len(valores) = 0 \/ chooseValue(valores) = <<>>
    THEN [st EXCEPT !.dataLinesDetected = @ + 1]
    ELSE [st EXCEPT !.dataLinesDetected = @ + 1,
                    !.extractedRows = @ + 1,
                    !.rows = Append(@, novaRow(extractMatricula(line)[1],
                                chooseValue(valores)[1], st, valores, line, i))]

csvDados(st, line, i, valores) ==
    IF Len(valores) = 0 \/ chooseValue(valores) = <<>>
    THEN [st EXCEPT !.dataLinesDetected = @ + 1, !.discardedNoValue = @ + 1]
    ELSE [st EXCEPT !.dataLinesDetected = @ + 1,
                    !.extractedRows = @ + 1,
                    !.rows = Append(@, novaRow(extractMatricula(line)[1],
                                chooseValue(valores)[1], st, valores, line, i))]

\* One iteration of `for (const line of lines)`, after totalLines++ and the
\* blank-line test; st already carries the competencia of this line.
csvLinha(st, line, i) ==
    IF IndexOfType(line, {"evento"}) # 0
    THEN csvEvento(st, line[IndexOfType(line, {"evento"})].code)
    ELSE IF extractMatricula(line) = <<>> THEN st
    ELSE csvDados(st, line, i, extractAllValores(line))

RECURSIVE csvLoop(_, _, _)
csvLoop(lines, i, st) ==
    IF i > Len(lines) THEN st
    ELSE IF lines[i] = <<>>
         THEN csvLoop(lines, i + 1, [st EXCEPT !.totalLines = @ + 1])
         ELSE csvLoop(lines, i + 1,
                csvLinha(csvCompetencia([st EXCEPT !.totalLines = @ + 1], lines[i]),
                         lines[i], i))

Diag(severity, code) == [severity |-> severity, code |-> code]

DiagIf(cond, severity, code) == IF cond THEN <<Diag(severity, code)>> ELSE <<>>

csvDiagnostics(st) ==
    <<Diag("info", "CSV_DELIMITER_DETECTED"),
      [severity |-> IF st.extractedRows > 0 THEN "info" ELSE "error",
       code |-> "CSV_PARSE_SUMMARY",
       details |-> [totalLines |-> st.totalLines,
                    dataLinesDetected |-> st.dataLinesDetected,
                    extractedRows |-> st.extractedRows,
                    discardedNoValue |-> st.discardedNoValue,
                    discardedNoMatricula |-> st.discardedNoMatricula,
                    eventosVistosCount |-> Cardinality(st.eventosVistos)]]>>
      \o DiagIf(st.extractedRows = 0, "error", "CSV_NO_ROWS")
      \o DiagIf(st.competenciaFound = <<>> /\ st.extractedRows > 0,
                "warn", "CSV_COMPETENCIA_NOT_FOUND")
      \o DiagIf(st.eventosVistos = {} /\ st.extractedRows > 0,
                "warn", "CSV_EVENT_NOT_FOUND")

csvResultado(st) ==
    [done |-> TRUE, rows |-> st.rows, diagnostics |-> csvDiagnostics(st),
     competencia |-> st.competenciaFound]

\* extractFromCsvReport(text): CsvReportExtractionResult
extractFromCsvReport(lines) == csvResultado(csvLoop(lines, 1, csvInicio))

(***************************************************************************)
(* parseTextReport                                                         *)
(***************************************************************************)
\* EVENTO_REGEX = /Evento:\s*(\d{1,4})/i; the capture is padded as text.
eventoTexto(code) == padStart3(SubSeq(code, 1, Min(4, Len(code))))

\* trimmedLine.match(VALOR_BR_REGEX).map(parseBRL).filter(v => v !== null)
valoresTexto(line) ==
    ParseAll(SelectSeq(RawsOf(line, {"aspas", "rs", "br"}), IsBRL))

\* chooseValue of parseTextReport.ts: the last value when all are zero.
chooseValueTexto(valores) ==
    IF Len(valores) = 0 THEN <<>>
    ELSE IF Len(valores) = 1 THEN <<valores[1]>>
    ELSE IF SelectSeq(valores, IsPositive) = <<>> THEN <<valores[Len(valores)]>>
    ELSE <<SelectSeq(valores, IsPositive)[Len(SelectSeq(valores, IsPositive))]>>

\* MATRICULA_REGEX_START
matriculaInicio(line) ==
    IF line # <<>> /\ line[1].t = "key" THEN <<line[1].key>> ELSE <<>>

\* MATRICULA_REGEX_START, else MATRICULA_REGEX_ANYWHERE
matriculaTexto(line) ==
    IF matriculaInicio(line) # <<>> THEN matriculaInicio(line)
    ELSE IF IndexOfType(line, {"key", "cpf"}) # 0
         THEN <<KeyShape(line[IndexOfType(line, {"key", "cpf"})])>>
         ELSE <<>>

\* CPF_REGEX.test(line)
hasCPF(line) == IndexOfType(line, {"cpf"}) # 0

textoInicio ==
    [rows |-> <<>>, competenciaFound |-> <<>>, eventoAtual |-> <<>>,
     eventosDetectados |-> 0, dataLinesDetected |-> 0, extractedRows |-> 0,
     discardedNoValue |-> 0, matriculas |-> <<>>, valoresData |-> <<>>]

textoEvento(st, code) ==
    [st EXCEPT !.eventoAtual = <<eventoTexto(code)>>,
               !.eventosDetectados = @ + 1]

padraoDados(st, line, i, valores) ==
    IF chooseValueTexto(valores) = <<>>
    THEN [st EXCEPT !.dataLinesDetected = @ + 1, !.discardedNoValue = @ + 1]
    ELSE [st EXCEPT !.dataLinesDetected = @ + 1,
                    !.extractedRows = @ + 1,
                    !.rows = Append(@, novaRow(matriculaTexto(line)[1],
                                chooseValueTexto(valores)[1], st, valores, line, i))]

padraoLinha(st, line, i) ==
    IF IndexOfType(line, {"evento"}) # 0
    THEN textoEvento(st, line[IndexOfType(line, {"evento"})].code)
    ELSE IF matriculaTexto(line) = <<>> THEN st
    ELSE padraoDados(st, line, i, valoresTexto(line))

RECURSIVE padraoLoop(_, _, _)
padraoLoop(lines, i, st) ==
    IF i > Len(lines) THEN st
    ELSE IF lines[i] = <<>> THEN padraoLoop(lines, i + 1, st)
    ELSE padraoLoop(lines, i + 1,
                    padraoLinha(csvCompetencia(st, lines[i]), lines[i], i))

\* addDiagnostics(...)
addDiagnostics(st) ==
    DiagIf(st.competenciaFound = <<>>, "warn", "TEXT_COMPETENCIA_NOT_FOUND")
      \o DiagIf(st.eventosDetectados = 0 /\ st.extractedRows > 0,
                "warn", "TEXT_EVENT_NOT_FOUND")
      \o (IF st.extractedRows = 0
          THEN <<[severity |-> "error", code |-> "TEXT_ZERO_ROWS",
                  details |-> [dataLinesDetected |-> st.dataLinesDetected,
                               discardedNoValue |-> st.discardedNoValue]]>>
          ELSE <<[severity |-> "info", code |-> "TEXT_PARSE_SUMMARY",
                  details |-> [dataLinesDetected |-> st.dataLinesDetected,
                               extractedRows |-> st.extractedRows,
                               discardedNoValue |-> st.discardedNoValue,
                               eventosDetectados |-> st.eventosDetectados]]>>)

padraoResultado(st) ==
    [done |-> TRUE, rows |-> st.rows, diagnostics |-> addDiagnostics(st),
     competencia |-> st.competenciaFound,
     eventosDetectados |-> st.eventosDetectados]

parseStandardFormat(lines) == padraoResultado(padraoLoop(lines, 1, textoInicio))

\* A value line of the column-separated layout: CPF and amounts.
colunasValor(st, line, i, valores) ==
    IF chooseValueTexto(valores) = <<>> THEN st
    ELSE [st EXCEPT !.valoresData =
            Append(@, [valor |-> chooseValueTexto(valores)[1],
                       raw |-> line, linha |-> i, evento |-> st.eventoAtual])]

colunasLinha(st, line, i) ==
    IF IndexOfType(line, {"evento"}) # 0
    THEN textoEvento(st, line[IndexOfType(line, {"evento"})].code)
    ELSE IF matriculaInicio(line) # <<>> /\ ~hasCPF(line)
         THEN [st EXCEPT !.matriculas = Append(@, matriculaInicio(line)[1])]
    ELSE IF hasCPF(line) THEN colunasValor(st, line, i, valoresTexto(line))
    ELSE st

RECURSIVE colunasLoop(_, _, _)
colunasLoop(lines, i, st) ==
    IF i > Len(lines) THEN st
    ELSE IF lines[i] = <<>> THEN colunasLoop(lines, i + 1, st)
    ELSE colunasLoop(lines, i + 1,
                     colunasLinha(csvCompetencia(st, lines[i]), lines[i], i))

\* Matriculas and values are correlated by order.
colunasRows(st) ==
    [k \in 1..Min(Len(st.matriculas), Len(st.valoresData)) |->
        [source |-> "prefeitura",
         matricula |-> st.matriculas[k],
         valor |-> st.valoresData[k].valor,
         meta |-> [competencia |-> st.competenciaFound,
                   evento |-> st.valoresData[k].evento,
                   confidence |-> "medium"],
         rawRef |-> [raw |-> st.valoresData[k].raw,
                     linha |-> st.valoresData[k].linha]]]

colunasDiagnostics(st, rows) ==
    (IF Len(rows) = 0
     THEN <<Diag("error", "TEXT_ZERO_ROWS")>>
     ELSE DiagIf(Len(st.matriculas) # Len(st.valoresData),
                 "warn", "TEXT_COLUMN_MISMATCH")
            \o <<Diag("info", "TEXT_PARSE_SUMMARY")>>)
      \o DiagIf(st.competenciaFound = <<>>, "warn", "TEXT_COMPETENCIA_NOT_FOUND")
      \o DiagIf(st.eventosDetectados = 0 /\ Len(rows) > 0,
                "warn", "TEXT_EVENT_NOT_FOUND")

colunasResultado(st, rows) ==
    [done |-> TRUE, rows |-> rows, diagnostics |-> colunasDiagnostics(st, rows),
     competencia |-> st.competenciaFound,
     eventosDetectados |-> st.eventosDetectados]

colunasDe(st) == colunasResultado(st, colunasRows(st))

parseColumnSeparatedFormat(lines) == colunasDe(colunasLoop(lines, 1, textoInicio))

\* parseTextReport(text): TextReportResult
parseTextReport(lines) ==
    IF Len(parseStandardFormat(lines).rows) > 0
    THEN parseStandardFormat(lines)
    ELSE parseColumnSeparatedFormat(lines)

(***************************************************************************)
(* Bounds and input catalogues of the parsing model                        *)
(***************************************************************************)
MaxValores == 3

MaxLines == 3

Key(k) == [t |-> "key", key |-> k]

Cpf(tail) == [t |-> "cpf", tail |-> tail]

Evento(code) == [t |-> "evento", code |-> code]

Comp(forma, mes, ano) == [t |-> "comp", forma |-> forma, mes |-> mes, ano |-> ano]

Valor(kind, raw) == [t |-> "valor", kind |-> kind, raw |-> raw]

Texto == [t |-> "texto"]

\* 0,00  1,00  2,00  1.234,56 and 12 (which is no pt-BR amount)
Raw000 == <<"0", ",", "0", "0">>

Raw100 == <<"1", ",", "0", "0">>

Raw200 == <<"2", ",", "0", "0">>

Raw123456 == <<"1", ".", "2", "3", "4", ",", "5", "6">>

Raw12 == <<"1", "2">>

\* The value tokens of a line: a quoted or R$-prefixed token carries any
\* text of digits, dots and commas; a bare token is one VALOR_BR_REGEX finds.
ValorTokens ==
    {Valor(kind, raw) : kind \in {"aspas", "rs"},
                        raw \in {Raw000, Raw100, Raw200, Raw12}}
      \cup {Valor("br", raw) : raw \in {Raw000, Raw100, Raw200}}

\* One data line: 85-1;NOME followed by up to MaxValores value tokens.
DataLines ==
    {<<Key(<<85, 1>>), Texto>> \o vs : vs \in SeqsUpTo(ValorTokens, MaxValores)}

\* The lines of the multi-line documents.
ReportLines ==
    {<<>>,
     <<Texto>>,
     <<Texto, Comp("slash", "01", "2026")>>,
     <<Comp("compact", "02", "2026")>>,
     <<Comp("compact", "03", "2026"), Texto, Comp("slash", "13", "2025")>>,
     <<Key(<<85, 1>>), Comp("slash", "05", "2026"), Valor("br", Raw200)>>,
     <<Evento(<<"2">>), Texto>>,
     <<Evento(<<"0", "4", "5">>)>>,
     <<Evento(<<"1", "2", "3", "4">>)>>,
     <<Key(<<85, 1>>), Texto, Valor("aspas", Raw100)>>,
     <<Key(<<99, 1>>), Texto>>,
     <<Cpf(<<393, 99>>), Valor("br", Raw000), Valor("br", Raw123456)>>,
     <<Key(<<7, 2>>), Evento(<<"9">>), Valor("br", Raw200)>>,
     <<Evento(<<"2">>), Cpf(<<393, 99>>), Valor("br", Raw100)>>}

(***************************************************************************)
(* State machine of the parsers: a document is given, and each parser runs *)
(* once on it. text.split(/\r?\n/) has at least one line.                  *)
(***************************************************************************)
InitCsvLine ==
    /\ text \in {<<line>> : line \in DataLines}
    /\ csvResult = Pending
    /\ textResult = Pending
    /\ IdleReconcile
    /\ IdleRouter
    /\ IdleDelimiter
    /\ IdleSheet
    /\ IdleApp

InitCsv ==
    /\ text \in NonEmptySeqsUpTo(ReportLines, MaxLines)
    /\ csvResult = Pending
    /\ textResult = Pending
    /\ IdleReconcile
    /\ IdleRouter
    /\ IdleDelimiter
    /\ IdleSheet
    /\ IdleApp

ExtractCsv ==
    /\ ~csvResult.done
    /\ csvResult' = extractFromCsvReport(text)
    /\ UNCHANGED <<bankRows, prefRows, recResult, text, textResult,
                   file, extractor, extResult, delimVars, sheetVars, uiVars>>

ParseText ==
    /\ ~textResult.done
    /\ textResult' = parseTextReport(text)
    /\ UNCHANGED <<bankRows, prefRows, recResult, text, csvResult,
                   file, extractor, extResult, delimVars, sheetVars, uiVars>>

NextCsvLine == ExtractCsv

SpecCsvLine == InitCsvLine /\ [][NextCsvLine]_vars

NextCsv == ExtractCsv \/ ParseText

SpecCsv == InitCsv /\ [][NextCsv]_vars

(***************************************************************************)
(* Properties of the parsers                                               *)
(***************************************************************************)
\* Every numeric token of a line, in left-to-right order.
TokensNumericos(line) == ParseAll(RawsOf(line, {"aspas", "rs", "br"}))

LastNonZero(vals) ==
    IF SelectSeq(vals, IsPositive) = <<>> THEN 0
    ELSE SelectSeq(vals, IsPositive)[Len(SelectSeq(vals, IsPositive))]

\* A data line: not blank, no event marker, and a matricula.
IsDataLine(line) ==
    /\ line # <<>>
    /\ IndexOfType(line, {"evento"}) = 0
    /\ extractMatricula(line) # <<>>

RowsOfLine(result, i) ==
    {k \in DOMAIN result.rows : result.rows[k].rawRef.linha = i}

\* C9: for every data line of a delimited-text document, the amount of the
\* emitted row is the last non-zero numeric token of the line in
\* left-to-right order over the tokens of the three strategies (0 when every
\* token is zero), and a line without a numeric token emits no row.
C9_LastNonZeroLeftToRight ==
    csvResult.done =>
        \A i \in DOMAIN text :
            IsDataLine(text[i]) =>
                IF TokensNumericos(text[i]) = <<>>
                THEN RowsOfLine(csvResult, i) = {}
                ELSE /\ Cardinality(RowsOfLine(csvResult, i)) = 1
                     /\ \A k \in RowsOfLine(csvResult, i) :
                           csvResult.rows[k].valor
                               = LastNonZero(TokensNumericos(text[i]))

\* The event lines of a document that precede line i.
EventosAntes(lines, i) ==
    {j \in 1..(i - 1) : lines[j] # <<>> /\ IndexOfType(lines[j], {"evento"}) # 0}

MaxOf(S) == CHOOSE x \in S : \A y \in S : y <= x

CodigoDe(line) == line[IndexOfType(line, {"evento"})].code

\* The event a row emitted for line i should carry.
EventoEsperado(lines, i) ==
    IF EventosAntes(lines, i) = {} THEN <<>>
    ELSE <<padStart3(CodigoDe(lines[MaxOf(EventosAntes(lines, i))]))>>

EventoCarried(result, lines) ==
    result.done =>
        \A k \in DOMAIN result.rows :
            result.rows[k].meta.evento
                = EventoEsperado(lines, result.rows[k].rawRef.linha)

\* C10: in extractFromCsvReport and in parseTextReport, every emitted row's
\* event code is the code, left-zero-padded to 3 digits, of the nearest event
\* line that precedes the row in the document, and is absent when no event
\* line precedes it.
C10_EventCarried ==
    /\ EventoCarried(csvResult, text)
    /\ EventoCarried(textResult, text)

\* The first line of the document that holds a period token, 0 if none.
PrimeiraCompetencia(lines) ==
    IF \E i \in DOMAIN lines : IndexOfType(lines[i], {"comp"}) # 0
    THEN CHOOSE i \in DOMAIN lines :
            /\ IndexOfType(lines[i], {"comp"}) # 0
            /\ \A j \in 1..(i - 1) : IndexOfType(lines[j], {"comp"}) = 0
    ELSE 0

\* The period of a document: that of its first line holding one, the
\* slash form being read before the compact form within the line.
CompetenciaEsperada(lines) ==
    IF PrimeiraCompetencia(lines) = 0 THEN <<>>
    ELSE matchCompetencia(lines[PrimeiraCompetencia(lines)])

PeriodFirstWins(result, lines) ==
    result.done =>
        /\ result.competencia = CompetenciaEsperada(lines)
        /\ \A k \in DOMAIN result.rows :
              (/\ PrimeiraCompetencia(lines) # 0
               /\ result.rows[k].rawRef.linha >= PrimeiraCompetencia(lines))
                => result.rows[k].meta.competencia = CompetenciaEsperada(lines)

\* C11: the period returned by extractFromCsvReport and by parseTextReport
\* is the token of the first line, in document order, that holds a
\* slash-form or valid-month compact-form period; no later line changes it,
\* and every row emitted from that line on carries it.
C11_PeriodFirstWins ==
    /\ PeriodFirstWins(csvResult, text)
    /\ PeriodFirstWins(textResult, text)

\* Two lines with different periods are followed by a data line, and both
\* parsers have emitted its row.
C11_Witness ==
    /\ csvResult.done
    /\ textResult.done
    /\ Len(text) = 3
    /\ matchCompetencia(text[1]) # <<>>
    /\ matchCompetencia(text[2]) # <<>>
    /\ matchCompetencia(text[1]) # matchCompetencia(text[2])
    /\ RowsOfLine(csvResult, 3) # {}
    /\ RowsOfLine(textResult, 3) # {}

(***************************************************************************)
(* Files                                                                   *)
(*                                                                         *)
(* A File is a name, kept as the parts name.split('.') yields, and its     *)
(* content: text lines, a PDF (pages with their count of non-blank         *)
(* characters and their text lines), a DOCX (a zip that may hold           *)
(* word/document.xml, with table rows and paragraphs) or a spreadsheet.    *)
(* fault says where reading the content throws.                            *)
(***************************************************************************)
hasErrorDiag(diagnostics) ==
    \E k \in DOMAIN diagnostics : diagnostics[k].severity = "error"

hasCode(diagnostics, severity, codes) ==
    \E k \in DOMAIN diagnostics :
        diagnostics[k].severity = severity /\ diagnostics[k].code \in codes

\* Besides the fields of the result, parsed records whether the call ran a
\* line parser (extractFromCsvReport or parseTextReport) on the way.
Falhou(formato, diagnostics) ==
    [done |-> TRUE, rows |-> <<>>, diagnostics |-> diagnostics,
     competencia |-> <<>>, formato |-> formato, extracao |-> "falhou",
     parsed |-> FALSE]

Extraido(formato, result, allDiagnostics, extracao) ==
    [done |-> TRUE, rows |-> result.rows, diagnostics |-> allDiagnostics,
     competencia |-> result.competencia, formato |-> formato,
     extracao |-> extracao, parsed |-> TRUE]

(***************************************************************************)
(* extractFromPdf                                                          *)
(***************************************************************************)
PdfPagesToCheck == 3

PdfScanMaxChars == 50

PdfMixedMaxChars == 200

pagesToCheck(pages) == Min(Len(pages), PdfPagesToCheck)

RECURSIVE totalChars(_, _)
totalChars(pages, n) ==
    IF n = 0 THEN 0 ELSE totalChars(pages, n - 1) + pages[n].chars

classifyPdfSemScan(pages) ==
    IF totalChars(pages, pagesToCheck(pages))
            < PdfMixedMaxChars * pagesToCheck(pages) THEN "mixed"
    ELSE "text"

\* avgCharsPerPage = totalChars / pagesToCheck is compared as a product;
\* with no page the average is NaN, both comparisons fail and the type is
\* 'text'.
classifyPdf(pages) ==
    IF totalChars(pages, pagesToCheck(pages))
            < PdfScanMaxChars * pagesToCheck(pages) THEN "scan"
    ELSE IF totalChars(pages, pagesToCheck(pages))
            < PdfMixedMaxChars * pagesToCheck(pages) THEN "mixed"
    ELSE "text"

\* fullText += pageText + '\n\n', then split into lines.
RECURSIVE fullText(_)
fullText(pages) ==
    IF pages = <<>> THEN <<<<>>>>
    ELSE (IF Head(pages).lines = <<>> THEN <<<<>>>> ELSE Head(pages).lines)
            \o <<<<>>>> \o fullText(Tail(pages))

determineExtracaoPdfSemMixed(extractedRows, pdfType, diagnostics) ==
    IF hasCode(diagnostics, "error",
               {"PDF_SCAN_DETECTED", "PDF_READ_ERROR", "TEXT_ZERO_ROWS"})
       \/ extractedRows = 0
    THEN "falhou"
    ELSE "completa"

determineExtracaoPdf(extractedRows, pdfType, diagnostics) ==
    IF hasCode(diagnostics, "error",
               {"PDF_SCAN_DETECTED", "PDF_READ_ERROR", "TEXT_ZERO_ROWS"})
       \/ extractedRows = 0
    THEN "falhou"
    ELSE IF pdfType = "mixed" THEN "parcial"
    ELSE "completa"

sparseDiag(type) == DiagIf(type = "mixed", "warn", "PDF_TEXT_SPARSE")

pdfMontar(type, result, allDiagnostics) ==
    Extraido("pdf_text_report_v1", result, allDiagnostics,
             determineExtracaoPdf(Len(result.rows), type, allDiagnostics))

\* extractFromPdf without its catch block taking effect on a page fault.
pdfComTipoSemCatch(pdf, type) ==
    IF type = "scan"
    THEN Falhou("pdf_text_report_v1", <<Diag("error", "PDF_SCAN_DETECTED")>>)
    ELSE pdfMontar(type, parseTextReport(fullText(pdf.pages)),
                   sparseDiag(type) \o <<Diag("info", "PDF_TEXT_EXTRACTED")>>
                     \o parseTextReport(fullText(pdf.pages)).diagnostics)

pdfComTipo(pdf, type) ==
    IF type = "scan"
    THEN Falhou("pdf_text_report_v1", <<Diag("error", "PDF_SCAN_DETECTED")>>)
    ELSE IF pdf.fault = "pages" /\ Len(pdf.pages) > 0
    THEN Falhou("pdf_text_report_v1",
                sparseDiag(type) \o <<Diag("error", "PDF_READ_ERROR")>>)
    ELSE pdfMontar(type, parseTextReport(fullText(pdf.pages)),
                   sparseDiag(type) \o <<Diag("info", "PDF_TEXT_EXTRACTED")>>
                     \o parseTextReport(fullText(pdf.pages)).diagnostics)

\* extractFromPdf(file): pdfjs throws on bytes that are no PDF.
extractFromPdf(f) ==
    IF f.conteudo.tipo # "pdf" \/ f.conteudo.fault = "load"
    THEN Falhou("pdf_text_report_v1", <<Diag("error", "PDF_READ_ERROR")>>)
    ELSE pdfComTipo(f.conteudo, classifyPdf(f.conteudo.pages))

(***************************************************************************)
(* extractFromDocx                                                         *)
(***************************************************************************)
\* determineExtracao of the DOCX connector without its warning branch.
determineExtracaoDocxSemAviso(extractedRows, diagnostics) ==
    IF hasCode(diagnostics, "error",
               {"DOCX_EMPTY", "DOCX_READ_ERROR", "TEXT_ZERO_ROWS"})
       \/ extractedRows = 0
    THEN "falhou"
    ELSE "completa"

determineExtracaoDocx(extractedRows, diagnostics) ==
    IF hasCode(diagnostics, "error",
               {"DOCX_EMPTY", "DOCX_READ_ERROR", "TEXT_ZERO_ROWS"})
       \/ extractedRows = 0
    THEN "falhou"
    ELSE IF hasCode(diagnostics, "warn",
                    {"DOCX_NO_TABLE", "DOCX_TABLE_EXTRACT_FALLBACK_TEXT"})
    THEN "parcial"
    ELSE "completa"

\* The diagnostics pushed while choosing the text to parse.
docxPre(docx) ==
    IF docx.hasTable
    THEN <<Diag("info", "DOCX_TABLE_DETECTED")>>
           \o DiagIf(docx.tableLines = <<>>,
                     "warn", "DOCX_TABLE_EXTRACT_FALLBACK_TEXT")
    ELSE <<Diag("warn", "DOCX_NO_TABLE")>>

\* extractTableText(xml) when it yields lines, else extractPlainText(xml).
extractedText(docx) ==
    IF docx.hasTable /\ docx.tableLines # <<>> THEN docx.tableLines
    ELSE docx.plainLines

docxMontar(result, allDiagnostics) ==
    Extraido("docx_text_report_v1", result, allDiagnostics,
             determineExtracaoDocx(Len(result.rows), allDiagnostics))

docxComXml(docx) ==
    IF extractedText(docx) = <<>>
    THEN Falhou("docx_text_report_v1",
                docxPre(docx) \o <<Diag("error", "DOCX_EMPTY")>>)
    ELSE docxMontar(parseTextReport(extractedText(docx)),
                    docxPre(docx) \o <<Diag("info", "DOCX_TEXT_EXTRACTED")>>
                      \o parseTextReport(extractedText(docx)).diagnostics)

\* extractFromDocx(file): JSZip throws on bytes that are no zip.
extractFromDocx(f) ==
    IF f.conteudo.tipo # "docx" \/ f.conteudo.fault = "load"
    THEN Falhou("docx_text_report_v1", <<Diag("error", "DOCX_READ_ERROR")>>)
    ELSE IF ~f.conteudo.documentXml
    THEN Falhou("docx_text_report_v1", <<Diag("error", "DOCX_EMPTY")>>)
    ELSE docxComXml(f.conteudo)

(***************************************************************************)
(* Spreadsheet extractors (connectors/xlsx, connectors/xls): only their    *)
(* call sites are in the source. The result has the common shape, its rows *)
(* are those the sheet holds, and its quality follows the derivation rule  *)
(* of the data model; SHEET_ZERO_ROWS stands for their error diagnostic.   *)
(***************************************************************************)
extractFromSheet(f, formato) ==
    IF f.conteudo.tipo = "planilha" /\ f.conteudo.rows # <<>>
    THEN [done |-> TRUE, rows |-> f.conteudo.rows, diagnostics |-> <<>>,
          competencia |-> <<>>, formato |-> formato, extracao |-> "completa",
          parsed |-> FALSE]
    ELSE Falhou(formato, <<Diag("error", "SHEET_ZERO_ROWS")>>)

(***************************************************************************)
(* PrefeituraExtractor                                                     *)
(***************************************************************************)
toLowerCase(s) ==
    CASE s = "CSV" -> "csv"
      [] s = "Pdf" -> "pdf"
      [] s = "XLSX" -> "xlsx"
      [] OTHER -> s

\* getExtension(fileName), on the parts of fileName.split('.')
getExtension(parts) ==
    IF Len(parts) < 2 THEN "" ELSE toLowerCase(parts[Len(parts)])

\* await file.text(): bytes that are no text decode to text without data.
fileText(f) ==
    IF f.conteudo.tipo = "texto" THEN f.conteudo.lines ELSE <<<<Texto>>>>

csvExtracaoSemRows(rows, hasError) ==
    IF hasError THEN "parcial" ELSE "completa"

csvExtracao(rows, hasError) ==
    IF Len(rows) = 0 THEN "falhou"
    ELSE IF hasError THEN "parcial"
    ELSE "completa"

csvBranch(result) ==
    Extraido("csv_report_v1", result, result.diagnostics,
             csvExtracao(result.rows, hasErrorDiag(result.diagnostics)))

unsupportedParcial(f, extension, supportedFormats) ==
    [done |-> TRUE, rows |-> <<>>,
     diagnostics |-> <<Diag("error", "prefeitura_unsupported_format")>>,
     competencia |-> <<>>, formato |-> "unknown", extracao |-> "parcial",
     parsed |-> FALSE]

unsupported(f, extension, supportedFormats) ==
    [done |-> TRUE,
     rows |-> <<>>,
     diagnostics |->
        <<[severity |-> "error",
           code |-> "prefeitura_unsupported_format",
           details |-> [fileName |-> f.name,
                        extension |-> extension,
                        supportedFormats |-> supportedFormats]]>>,
     competencia |-> <<>>,
     formato |-> "unknown",
     extracao |-> "falhou",
     parsed |-> FALSE]

SupportedRev1 == <<"csv", "pdf", "docx">>

SupportedRev2 == <<"csv", "pdf", "docx", "xlsx", "xls">>

routeRev1(f, extension) ==
    IF extension = "csv" THEN csvBranch(extractFromCsvReport(fileText(f)))
    ELSE IF extension = "pdf" THEN extractFromPdf(f)
    ELSE IF extension = "docx" THEN extractFromDocx(f)
    ELSE unsupported(f, extension, SupportedRev1)

routeRev2(f, extension) ==
    IF extension = "csv" THEN csvBranch(extractFromCsvReport(fileText(f)))
    ELSE IF extension = "pdf" THEN extractFromPdf(f)
    ELSE IF extension = "docx" THEN extractFromDocx(f)
    ELSE IF extension = "xlsx" THEN extractFromSheet(f, "xlsx_table_v1")
    ELSE IF extension = "xls" THEN extractFromSheet(f, "xls_table_v1")
    ELSE unsupported(f, extension, SupportedRev2)

\* PrefeituraExtractor.extract(file), supporting csv, pdf and docx
extractRev1(f) == routeRev1(f, getExtension(f.name))

\* PrefeituraExtractor.extract(file), supporting xlsx and xls as well
extractRev2(f) == routeRev2(f, getExtension(f.name))

(***************************************************************************)
(* Bounds and input catalogues of the router model                         *)
(***************************************************************************)
MaxPages == 2

FileNames ==
    {<<"relatorio">>, <<"relatorio", "">>, <<"relatorio", "csv">>,
     <<"relatorio", "CSV">>, <<"relatorio", "pdf">>, <<"relatorio", "docx">>,
     <<"relatorio", "xlsx">>, <<"relatorio", "XLSX">>, <<"relatorio", "xls">>,
     <<"relatorio", "txt">>, <<"relatorio", "csv", "bak">>}

\* Texts of a page, a table or a run of paragraphs.
PageDocs ==
    {<<<<Texto>>>>,
     <<<<Key(<<85, 1>>), Texto, Valor("br", Raw100)>>>>,
     <<<<Evento(<<"2">>)>>, <<Key(<<85, 1>>), Texto, Valor("br", Raw100)>>>>,
     <<<<Key(<<99, 1>>), Texto>>, <<Cpf(<<393, 99>>), Texto, Valor("br", Raw100)>>>>}

PageInputs == {[chars |-> c, lines |-> d] : c \in {10, 50, 200}, d \in PageDocs}

TextoContents == {[tipo |-> "texto", lines |-> d] : d \in {<<<<>>>>} \cup PageDocs}

PdfContents ==
    {[tipo |-> "pdf", fault |-> ft, pages |-> ps] :
        ft \in {"none", "load", "pages"}, ps \in SeqsUpTo(PageInputs, MaxPages)}

DocxContents ==
    {[tipo |-> "docx", fault |-> ft, documentXml |-> x, hasTable |-> tb,
      tableLines |-> tl, plainLines |-> pl] :
        ft \in {"none", "load"}, x \in BOOLEAN, tb \in BOOLEAN,
        tl \in {<<>>} \cup PageDocs, pl \in {<<>>} \cup PageDocs}

PlanilhaContents ==
    {[tipo |-> "planilha", rows |-> rs] :
        rs \in {<<>>, <<[source |-> "prefeitura", matricula |-> <<85, 1>>,
                         valor |-> 100]>>}}

FileInputs ==
    {[name |-> n, conteudo |-> c] :
        n \in FileNames,
        c \in TextoContents \cup PdfContents \cup DocxContents
                \cup PlanilhaContents}

(***************************************************************************)
(* State machine of the router: a file is chosen, and the deployed         *)
(* revision of PrefeituraExtractor extracts it once.                       *)
(***************************************************************************)
InitExtract ==
    /\ file \in FileInputs
    /\ extractor \in {"rev1", "rev2"}
    /\ extResult = Pending
    /\ IdleReconcile
    /\ IdleParsing
    /\ IdleDelimiter
    /\ IdleSheet
    /\ IdleApp

ExtractRev1 ==
    /\ extractor = "rev1"
    /\ ~extResult.done
    /\ extResult' = extractRev1(file)
    /\ UNCHANGED <<bankRows, prefRows, recResult, text, csvResult, textResult,
                   file, extractor, delimVars, sheetVars, uiVars>>

ExtractRev2 ==
    /\ extractor = "rev2"
    /\ ~extResult.done
    /\ extResult' = extractRev2(file)
    /\ UNCHANGED <<bankRows, prefRows, recResult, text, csvResult, textResult,
                   file, extractor, delimVars, sheetVars, uiVars>>

NextExtract == ExtractRev1 \/ ExtractRev2

SpecExtract == InitExtract /\ [][NextExtract]_vars

(***************************************************************************)
(* Properties of the router                                                *)
(***************************************************************************)
\* The result of the delimited-text, PDF or DOCX path.
TextualResult ==
    /\ extResult.done
    /\ extResult.formato
         \in {"csv_report_v1", "pdf_text_report_v1", "docx_text_report_v1"}

DegradedCodes ==
    {"PDF_TEXT_SPARSE", "DOCX_NO_TABLE", "DOCX_TABLE_EXTRACT_FALLBACK_TEXT"}

\* C6 as stated: quality is failed iff zero rows were produced, partial iff
\* at least one row was produced and an error-severity diagnostic was
\* raised, and complete otherwise.
C6_QualityByErrorDiagnostic ==
    TextualResult =>
        /\ extResult.extracao = "falhou" <=> Len(extResult.rows) = 0
        /\ extResult.extracao = "parcial" <=>
              (Len(extResult.rows) > 0 /\ hasErrorDiag(extResult.diagnostics))
        /\ extResult.extracao = "completa" <=>
              (Len(extResult.rows) > 0 /\ ~hasErrorDiag(extResult.diagnostics))

\* C6 (amended): on the delimited-text, PDF and DOCX paths quality is failed
\* iff zero rows were produced; partial iff at least one row was produced
\* and the extraction was degraded, which a warn diagnostic PDF_TEXT_SPARSE,
\* DOCX_NO_TABLE or DOCX_TABLE_EXTRACT_FALLBACK_TEXT records; complete
\* otherwise. A result with rows carries no error-severity diagnostic.
C6_QualityDerivation ==
    TextualResult =>
        /\ extResult.extracao = "falhou" <=> Len(extResult.rows) = 0
        /\ extResult.extracao = "parcial" <=>
              (/\ Len(extResult.rows) > 0
               /\ hasCode(extResult.diagnostics, "warn", DegradedCodes))
        /\ extResult.extracao = "completa" <=>
              (/\ Len(extResult.rows) > 0
               /\ ~hasCode(extResult.diagnostics, "warn", DegradedCodes))
        /\ Len(extResult.rows) > 0 => ~hasErrorDiag(extResult.diagnostics)

\* A PDF classified as mixed that yields rows is partial.
C6_Witness ==
    /\ extResult.done
    /\ extResult.formato = "pdf_text_report_v1"
    /\ Len(extResult.rows) > 0
    /\ extResult.extracao = "parcial"
    /\ ~hasErrorDiag(extResult.diagnostics)

\* The results of the extractors and of the router's own branch, all but
\* those of the spreadsheet connectors.
SourceResult ==
    /\ extResult.done
    /\ extResult.formato \notin {"xlsx_table_v1", "xls_table_v1"}

\* C7: an error-severity diagnostic implies quality partial or failed, and
\* zero rows imply quality failed whatever the diagnostics are.
C7_QualityMonotone ==
    SourceResult =>
        /\ hasErrorDiag(extResult.diagnostics)
              => extResult.extracao \in {"parcial", "falhou"}
        /\ Len(extResult.rows) = 0 => extResult.extracao = "falhou"

\* A delimited-text file without a data line: error diagnostics, no rows.
C7_Witness ==
    /\ extResult.done
    /\ extResult.formato = "csv_report_v1"
    /\ hasErrorDiag(extResult.diagnostics)
    /\ Len(extResult.rows) = 0
    /\ extResult.extracao = "falhou"

SupportedBy(rev) == IF rev = "rev1" THEN SupportedRev1 ELSE SupportedRev2

IsSupported(rev, extension) ==
    \E k \in DOMAIN SupportedBy(rev) : SupportedBy(rev)[k] = extension

\* C8: for a file whose extension is not a supported one, extract returns
\* zero rows, quality failed, format 'unknown' and exactly one diagnostic, of
\* error severity, that names the extension and lists the supported ones.
C8_UnsupportedType ==
    (extResult.done /\ ~IsSupported(extractor, getExtension(file.name))) =>
        /\ extResult.rows = <<>>
        /\ extResult.extracao = "falhou"
        /\ extResult.formato = "unknown"
        /\ Len(extResult.diagnostics) = 1
        /\ extResult.diagnostics[1].severity = "error"
        /\ extResult.diagnostics[1].code = "prefeitura_unsupported_format"
        /\ extResult.diagnostics[1].details.extension = getExtension(file.name)
        /\ extResult.diagnostics[1].details.supportedFormats
              = SupportedBy(extractor)

\* A spreadsheet given to the revision that supports csv, pdf and docx.
C8_Witness ==
    /\ extResult.done
    /\ extractor = "rev1"
    /\ file.name = <<"relatorio", "XLSX">>
    /\ file.conteudo.tipo = "planilha"
    /\ extResult.formato = "unknown"

\* A readable PDF given to extractFromPdf.
PdfLido ==
    /\ extResult.done
    /\ getExtension(file.name) = "pdf"
    /\ file.conteudo.tipo = "pdf"
    /\ file.conteudo.fault # "load"

RECURSIVE SomaChars(_)
SomaChars(pages) ==
    IF pages = <<>> THEN 0 ELSE Head(pages).chars + SomaChars(Tail(pages))

\* The pages the classifier samples: the first three at most.
Amostra(pages) == SubSeq(pages, 1, Min(Len(pages), 3))

\* The average of non-blank characters over the sampled pages is below 50.
MediaAbaixoDe50(pages) ==
    /\ Amostra(pages) # <<>>
    /\ SomaChars(Amostra(pages)) < 50 * Len(Amostra(pages))

\* C12: when the sampled pages of a PDF average fewer than 50 non-blank
\* characters, extractFromPdf stops there: no parser runs, and the result
\* has zero rows, quality failed and the PDF_SCAN_DETECTED error diagnostic.
C12_ScanAborts ==
    (PdfLido /\ MediaAbaixoDe50(file.conteudo.pages)) =>
        /\ ~extResult.parsed
        /\ extResult.rows = <<>>
        /\ extResult.extracao = "falhou"
        /\ extResult.diagnostics = <<Diag("error", "PDF_SCAN_DETECTED")>>

\* A scanned PDF whose second page has a data line in its text layer.
C12_Witness ==
    /\ PdfLido
    /\ Len(file.conteudo.pages) = 2
    /\ file.conteudo.pages[1].chars = 10
    /\ file.conteudo.pages[2].chars = 50
    /\ IsDataLine(file.conteudo.pages[2].lines[1])
    /\ hasCode(extResult.diagnostics, "error", {"PDF_SCAN_DETECTED"})

\* pdfjs throws: on bytes that are no PDF, while loading, or while reading
\* the text of a page once the classifier has let the document through.
PdfLancou ==
    /\ extResult.done
    /\ getExtension(file.name) = "pdf"
    /\ \/ file.conteudo.tipo # "pdf"
       \/ file.conteudo.fault = "load"
       \/ /\ file.conteudo.fault = "pages"
          /\ Len(file.conteudo.pages) > 0
          /\ ~MediaAbaixoDe50(file.conteudo.pages)

\* JSZip throws: on bytes that are no zip, or while loading.
DocxLancou ==
    /\ extResult.done
    /\ getExtension(file.name) = "docx"
    /\ \/ file.conteudo.tipo # "docx"
       \/ file.conteudo.fault = "load"

ContaErros(diagnostics) ==
    Cardinality({k \in DOMAIN diagnostics : diagnostics[k].severity = "error"})

FalhaDeLeitura(code) ==
    /\ extResult.rows = <<>>
    /\ extResult.extracao = "falhou"
    /\ ContaErros(extResult.diagnostics) = 1
    /\ hasCode(extResult.diagnostics, "error", {code})

\* C19: when the document collaborator throws during extractFromPdf or
\* extractFromDocx, the call returns zero rows, quality failed and exactly
\* one error diagnostic, PDF_READ_ERROR or DOCX_READ_ERROR.
C19_ReadErrorContained ==
    /\ PdfLancou => FalhaDeLeitura("PDF_READ_ERROR")
    /\ DocxLancou => FalhaDeLeitura("DOCX_READ_ERROR")

\* A sparse PDF with a data line whose page text cannot be read: the warning
\* pushed before the fault stays, followed by the one error.
C19_Witness ==
    /\ PdfLancou
    /\ file.conteudo.tipo = "pdf"
    /\ file.conteudo.fault = "pages"
    /\ Len(file.conteudo.pages) = 1
    /\ IsDataLine(file.conteudo.pages[1].lines[1])
    /\ extResult.diagnostics
         = <<Diag("warn", "PDF_TEXT_SPARSE"), Diag("error", "PDF_READ_ERROR")>>

(***************************************************************************)
(* Properties of the reconciliation: summary and order of the items        *)
(***************************************************************************)
\* C13: the quality reported by reconcile is failed if the authority row
\* set is empty, otherwise partial if a diagnostic of the reconciliation has
\* error severity, otherwise complete.
C13_ReconcileQuality ==
    recResult.done =>
        recResult.summary.extracao
            = IF prefRows = <<>> THEN "falhou"
              ELSE IF hasErrorDiag(recResult.diagnostics) THEN "parcial"
              ELSE "completa"

\* Bank rows reconciled against an empty authority file.
C13_Witness ==
    /\ recResult.done
    /\ bankRows # <<>>
    /\ prefRows = <<>>
    /\ recResult.summary.extracao = "falhou"

\* Position of a status name in name order.
OrdemDoNome(status) ==
    CHOOSE k \in 1..4 :
        <<"bateu", "divergente", "so_na_prefeitura", "so_no_banco">>[k] = status

Jan2026 == <<"01", "/", "2026">>

Fev2026 == <<"02", "/", "2026">>

\* What a row carries besides key and amount.
MetaInputs ==
    {[meta |-> [competencia |-> <<>>, evento |-> <<>>, confidence |-> "high"],
      rawRef |-> [raw |-> <<Key(<<85, 1>>), Texto>>]],
     [meta |-> [competencia |-> <<Jan2026>>, evento |-> <<<<"0", "0", "2">>>>,
                confidence |-> "medium"],
      rawRef |-> [raw |-> <<Texto>>]],
     [meta |-> [competencia |-> <<Fev2026>>, evento |-> <<>>,
                confidence |-> "high", nome |-> "NOME", cpf |-> <<393, 99>>],
      rawRef |-> [raw |-> <<Cpf(<<393, 99>>), Texto>>]]}

MetaRowInputs ==
    {[matricula |-> <<85, 1>>, valor |-> v, meta |-> m.meta, rawRef |-> m.rawRef] :
        v \in {10000, 10500}, m \in MetaInputs}

InitReconcileMeta ==
    /\ bankRows \in SeqsUpTo(MetaRowInputs, MaxRows)
    /\ prefRows \in SeqsUpTo(MetaRowInputs, MaxRows)
    /\ recResult = Pending
    /\ IdleParsing
    /\ IdleRouter
    /\ IdleDelimiter
    /\ IdleSheet
    /\ IdleApp

SpecReconcileMeta == InitReconcileMeta /\ [][NextReconcile]_vars

\* The periods the rows carry, bank rows first, then authority rows.
PeriodosVistos == competenciasDe(bankRows \o prefRows)

Vezes(c) == Cardinality({i \in DOMAIN PeriodosVistos : PeriodosVistos[i] = c})

PrimeiraVez(c) ==
    CHOOSE i \in DOMAIN PeriodosVistos :
        /\ PeriodosVistos[i] = c
        /\ \A j \in 1..(i - 1) : PeriodosVistos[j] # c

\* c occurs most often, and of the values that occur as often it is the
\* first seen.
MaisFrequente(c) ==
    \A i \in DOMAIN PeriodosVistos :
        \/ Vezes(c) > Vezes(PeriodosVistos[i])
        \/ /\ Vezes(c) = Vezes(PeriodosVistos[i])
           /\ PrimeiraVez(c) <= PrimeiraVez(PeriodosVistos[i])

\* C15: the period of the summary is the period value that occurs most
\* often among the bank rows followed by the authority rows; among values
\* tied for the highest count it is the first seen; it is absent when no row
\* carries a period.
C15_PeriodMostFrequent ==
    recResult.done =>
        IF PeriodosVistos = <<>>
        THEN recResult.summary.competencia = <<>>
        ELSE /\ Len(recResult.summary.competencia) = 1
             /\ \E i \in DOMAIN PeriodosVistos :
                   /\ recResult.summary.competencia[1] = PeriodosVistos[i]
                   /\ MaisFrequente(PeriodosVistos[i])

\* The period seen first is outnumbered by a later one.
C15_Witness ==
    /\ recResult.done
    /\ Len(PeriodosVistos) = 3
    /\ Vezes(PeriodosVistos[1]) = 1
    /\ recResult.summary.competencia = <<PeriodosVistos[2]>>

StripMeta(row) == [matricula |-> row.matricula, valor |-> row.valor]

RECURSIVE StripAll(_)
StripAll(rows) ==
    IF rows = <<>> THEN <<>> ELSE <<StripMeta(Head(rows))>> \o StripAll(Tail(rows))

\* C20: two calls of reconcile whose inputs differ only in the metadata of
\* the rows return the same items and the same counts. Stated against the
\* call on the rows reduced to key and amount, which every such input shares.
C20_MetadataIndependence ==
    recResult.done =>
        /\ recResult.items
             = reconcile(StripAll(bankRows), StripAll(prefRows)).items
        /\ recResult.summary.counts
             = reconcile(StripAll(bankRows), StripAll(prefRows)).summary.counts

\* Equal amounts whose rows differ in event, period, confidence, name, tax-id
\* and raw reference are matched.
C20_Witness ==
    /\ recResult.done
    /\ Len(bankRows) = 1
    /\ Len(prefRows) = 1
    /\ bankRows[1].valor = prefRows[1].valor
    /\ bankRows[1].meta.evento # prefRows[1].meta.evento
    /\ "cpf" \in DOMAIN prefRows[1].meta
    /\ recResult.summary.counts.bateu = 1

(***************************************************************************)
(* Free-text fallback                                                      *)
(***************************************************************************)
\* The keys of the bare-key lines: key at line start, no tax-id.
RECURSIVE ChavesSoltas(_)
ChavesSoltas(ls) ==
    IF ls = <<>> THEN <<>>
    ELSE (IF matriculaInicio(Head(ls)) # <<>> /\ ~hasCPF(Head(ls))
          THEN matriculaInicio(Head(ls))
          ELSE <<>>) \o ChavesSoltas(Tail(ls))

\* The values of the lines that hold a tax-id and a numeric value.
RECURSIVE ValoresComCpf(_)
ValoresComCpf(ls) ==
    IF ls = <<>> THEN <<>>
    ELSE (IF hasCPF(Head(ls)) /\ valoresTexto(Head(ls)) # <<>>
          THEN chooseValueTexto(valoresTexto(Head(ls)))
          ELSE <<>>) \o ValoresComCpf(Tail(ls))

\* C18: when the standard strategy yields zero rows, parseTextReport returns
\* min(k, v) rows for the k bare-key lines and the v lines with a tax-id and
\* a value, the i-th row pairing the i-th key with the i-th value.
C18_FallbackPairs ==
    (textResult.done /\ parseStandardFormat(text).rows = <<>>) =>
        /\ Len(textResult.rows)
             = Min(Len(ChavesSoltas(text)), Len(ValoresComCpf(text)))
        /\ \A i \in 1..Len(textResult.rows) :
              /\ textResult.rows[i].matricula = ChavesSoltas(text)[i]
              /\ textResult.rows[i].valor = ValoresComCpf(text)[i]

(***************************************************************************)
(* detectDelimiter (csv/detectDelimiter.ts) and splitCsvLine               *)
(* (csv/splitCsvLine.ts). A line is a sequence of one-character strings.   *)
(***************************************************************************)
Quote == "\""

SUPPORTED_DELIMITERS == <<",", ";", "\t", "|">>

SampleSize == 30

HighAvg == 3

MediumAvg == 1

\* The white space String.prototype.trim removes, within the alphabet used.
IsWhitespace(c) == c \in {" ", "\t"}

RECURSIVE trimStart(_)
trimStart(s) ==
    IF s # <<>> /\ IsWhitespace(Head(s)) THEN trimStart(Tail(s)) ELSE s

RECURSIVE trimEnd(_)
trimEnd(s) ==
    IF s # <<>> /\ IsWhitespace(s[Len(s)])
    THEN trimEnd(SubSeq(s, 1, Len(s) - 1))
    ELSE s

trim(s) == trimEnd(trimStart(s))

RECURSIVE countFrom(_, _, _, _)
countFrom(line, char, i, insideQuotes) ==
    IF i > Len(line) THEN 0
    ELSE IF line[i] = Quote
    THEN IF i + 1 <= Len(line) /\ line[i + 1] = Quote
         THEN countFrom(line, char, i + 2, insideQuotes)
         ELSE countFrom(line, char, i + 1, ~insideQuotes)
    ELSE (IF ~insideQuotes /\ line[i] = char THEN 1 ELSE 0)
         + countFrom(line, char, i + 1, insideQuotes)

countOutsideQuotes(line, char) == countFrom(line, char, 1, FALSE)

RECURSIVE trimAll(_)
trimAll(ls) ==
    IF ls = <<>> THEN <<>> ELSE <<trim(Head(ls))>> \o trimAll(Tail(ls))

NaoVazia(l) == Len(l) > 0

slice(s, n) == SubSeq(s, 1, Min(n, Len(s)))

sampleLinesDe(ls) == slice(SelectSeq(trimAll(ls), NaoVazia), SampleSize)

RECURSIVE totalCount(_, _)
totalCount(sample, delim) ==
    IF sample = <<>> THEN 0
    ELSE countOutsideQuotes(Head(sample), delim) + totalCount(Tail(sample), delim)

totalCountsDe(sample) ==
    [delim \in {",", ";", "\t", "|"} |-> totalCount(sample, delim)]

\* avgCounts[delim] is totalCounts[delim] / sampleLines.length with one
\* positive divisor for the four candidates, so the strict comparison of the
\* averages is the strict comparison of the totals.
RECURSIVE bestFrom(_, _, _)
bestFrom(counts, k, best) ==
    IF k > Len(SUPPORTED_DELIMITERS) THEN best
    ELSE bestFrom(counts, k + 1,
                  IF counts[SUPPORTED_DELIMITERS[k]] > counts[best]
                  THEN SUPPORTED_DELIMITERS[k]
                  ELSE best)

confidenceDelim(total, n) ==
    IF total > HighAvg * n THEN "high"
    ELSE IF total > MediumAvg * n THEN "medium"
    ELSE "low"

\* avgCount is kept as the fraction total / sampled lines.
detectResultado(counts, n, best) ==
    [done |-> TRUE,
     delimiter |-> best,
     avgCount |-> [total |-> counts[best], linhas |-> n],
     confidence |-> confidenceDelim(counts[best], n),
     counts |-> counts]

detectComContagem(counts, n) == detectResultado(counts, n, bestFrom(counts, 1, ","))

detectComAmostra(sample) ==
    IF Len(sample) = 0
    THEN [done |-> TRUE,
          delimiter |-> ",",
          avgCount |-> [total |-> 0, linhas |-> 1],
          confidence |-> "low",
          counts |-> [delim \in {",", ";", "\t", "|"} |-> 0]]
    ELSE detectComContagem(totalCountsDe(sample), Len(sample))

detectDelimiter(ls) == detectComAmostra(sampleLinesDe(ls))

NaoAspas(c) == c # Quote

RECURSIVE splitFrom(_, _, _, _, _, _)
splitFrom(line, delimiter, i, insideQuotes, currentField, acc) ==
    IF i > Len(line) THEN Append(acc, trim(currentField))
    ELSE IF line[i] = Quote
    THEN IF ~insideQuotes
         THEN splitFrom(line, delimiter, i + 1, TRUE, currentField, acc)
         ELSE IF i + 1 <= Len(line) /\ line[i + 1] = Quote
         THEN splitFrom(line, delimiter, i + 2, TRUE,
                        Append(currentField, Quote), acc)
         ELSE splitFrom(line, delimiter, i + 1, FALSE, currentField, acc)
    ELSE IF line[i] = delimiter /\ ~insideQuotes
    THEN splitFrom(line, delimiter, i + 1, FALSE, <<>>,
                   Append(acc, trim(currentField)))
    ELSE splitFrom(line, delimiter, i + 1, insideQuotes,
                   Append(currentField, line[i]), acc)

\* A split that takes every delimiter for a field boundary.
splitCsvLineSemAspas(line, delimiter) ==
    splitFrom(SelectSeq(line, NaoAspas), delimiter, 1, FALSE, <<>>, <<>>)

splitCsvLine(line, delimiter) == splitFrom(line, delimiter, 1, FALSE, <<>>, <<>>)

\* Array.prototype.join of the fields of one line.
RECURSIVE join(_, _)
join(fs, delimiter) ==
    IF fs = <<>> THEN <<>>
    ELSE IF Len(fs) = 1 THEN fs[1]
    ELSE fs[1] \o <<delimiter>> \o join(Tail(fs), delimiter)

splitAll(ls, delimiter) == [i \in 1..Len(ls) |-> splitCsvLine(ls[i], delimiter)]

joinAll(fss, delimiter) == [i \in 1..Len(fss) |-> join(fss[i], delimiter)]

(***************************************************************************)
(* Delimited files: every line of up to MaxChars characters, short files   *)
(* of typical lines, and files longer than the sample of detectDelimiter.  *)
(***************************************************************************)
MaxChars == 4

MaxCsvLines == 2

DelimChars == {",", ";", "\t", "|", Quote, "a", " "}

TypicalLines ==
    { <<>>,
      <<" ">>,
      <<"a">>,
      <<"a", ",", "a", ",", "a">>,
      <<"a", ";", "a", ";", "a">>,
      <<"a", "\t", "a", ",", " ", "a", "\t", "\t">>,
      <<"a", "|", "a", "|", "a", "|", "a", "|", "a">>,
      <<"a", ";", Quote, "a", ",", "a", Quote, ";", Quote, "a", ",", "a", Quote>>,
      <<Quote, "a", Quote, Quote, "a", Quote, ",", "a", ",", "a">> }

Repetir(l, n) == [i \in 1..n |-> l]

LongFiles ==
    {Repetir(l, SampleSize) \o <<m>> :
        l \in {<<"a">>, <<"a", ",", "a">>},
        m \in {<<"a", ";", "a", ";", "a">>, <<"a", ",", "a">>}}

DelimiterInputs ==
    {<<l>> : l \in SeqsUpTo(DelimChars, MaxChars)}
        \cup NonEmptySeqsUpTo(TypicalLines, MaxCsvLines)
        \cup LongFiles

InitDelimiter ==
    /\ csvLines \in DelimiterInputs
    /\ delimiterResult = Pending
    /\ splitFields = Pending
    /\ redetected = Pending
    /\ IdleReconcile
    /\ IdleParsing
    /\ IdleRouter
    /\ IdleSheet
    /\ IdleApp

DetectDelimiter ==
    /\ ~delimiterResult.done
    /\ delimiterResult' = detectDelimiter(csvLines)
    /\ UNCHANGED <<bankRows, prefRows, recResult, text, csvResult, textResult,
                   file, extractor, extResult, csvLines, splitFields, redetected,
                   sheetVars, uiVars>>

SplitLines ==
    /\ delimiterResult.done
    /\ ~splitFields.done
    /\ splitFields' = [done |-> TRUE,
                       linhas |-> splitAll(csvLines, delimiterResult.delimiter)]
    /\ UNCHANGED <<bankRows, prefRows, recResult, text, csvResult, textResult,
                   file, extractor, extResult, csvLines, delimiterResult,
                   redetected, sheetVars, uiVars>>

Redetect ==
    /\ splitFields.done
    /\ ~redetected.done
    /\ redetected' = detectDelimiter(joinAll(splitFields.linhas,
                                             delimiterResult.delimiter))
    /\ UNCHANGED <<bankRows, prefRows, recResult, text, csvResult, textResult,
                   file, extractor, extResult, csvLines, delimiterResult,
                   splitFields, sheetVars, uiVars>>

NextDelimiter == DetectDelimiter \/ SplitLines \/ Redetect

SpecDelimiter == InitDelimiter /\ [][NextDelimiter]_vars

\* C16: splitting every line by the detected delimiter, re-joining the fields
\* with it and detecting again yields the same delimiter.
C16_DelimiterIdempotent ==
    redetected.done => redetected.delimiter = delimiterResult.delimiter

\* The lines that hold a character other than white space, as written.
TemConteudo(l) == trim(l) # <<>>

AmostraEscrita == slice(SelectSeq(csvLines, TemConteudo), SampleSize)

MediaMaxima(d) ==
    \A e \in {",", ";", "\t", "|"} :
        totalCount(AmostraEscrita, d) >= totalCount(AmostraEscrita, e)

\* C17: detectDelimiter returns a candidate whose mean count outside quoted
\* spans over the first 30 non-empty lines is the highest, returns comma
\* whenever comma is among the highest, and returns comma with low confidence
\* when no line is non-empty.
C17_HighestMeanCommaOnTies ==
    delimiterResult.done =>
        /\ MediaMaxima(delimiterResult.delimiter)
        /\ MediaMaxima(",") => delimiterResult.delimiter = ","
        /\ AmostraEscrita = <<>> =>
               /\ delimiterResult.delimiter = ","
               /\ delimiterResult.confidence = "low"

(***************************************************************************)
(* Properties of the reconciliation: leftovers of the matching phase       *)
(***************************************************************************)
SobraBanco(item) == item.status \in {"divergente", "so_no_banco"}

SobraPrefeitura(item) == item.status \in {"divergente", "so_na_prefeitura"}

\* C21: every divergent item carries a bank amount and an authority amount
\* more than the tolerance apart; and no bank amount left unmatched by the
\* matching phase is within tolerance of an authority amount of the same key
\* left unmatched by it.
C21_DivergentBeyondTolerance ==
    recResult.done =>
        /\ \A i \in 1..Len(Items) :
              Items[i].status = "divergente" =>
                  Abs(Items[i].valorBanco - Items[i].valorPrefeitura) > TOLERANCE
        /\ \A i, j \in 1..Len(Items) :
              (/\ Items[i].matricula = Items[j].matricula
               /\ SobraBanco(Items[i])
               /\ SobraPrefeitura(Items[j])) =>
                  Abs(Items[i].valorBanco - Items[j].valorPrefeitura) > TOLERANCE

\* Bank {100.00, 100.02} against authority {100.01, 105.00}: 100.02 takes
\* 100.01, which 100.00 could have matched too, and 100.00 is left to diverge
\* from 105.00.
C21_Witness ==
    /\ recResult.done
    /\ Counts.bateu = 1
    /\ Counts.divergente = 1
    /\ \E i, j \in 1..Len(Items) :
          /\ Items[i].status = "bateu"
          /\ Items[i].valorBanco = 10002
          /\ Items[i].valorPrefeitura = 10001
          /\ Items[j].status = "divergente"
          /\ Items[j].valorBanco = 10000
          /\ Items[j].valorPrefeitura = 10500

(***************************************************************************)
(* Properties of the extraction: degraded results                          *)
(***************************************************************************)
\* The warnings of a degraded extraction: sparse PDF text, DOCX text taken
\* from prose instead of a table, key and value counts that differ.
DegradedWarnings ==
    DegradedCodes \cup {"TEXT_COLUMN_MISMATCH"}

\* C22: an extraction that returns at least one row and raised a warning of a
\* degraded extraction has quality partial.
C22_DegradedIsPartial ==
    (/\ extResult.done
     /\ Len(extResult.rows) >= 1
     /\ hasCode(extResult.diagnostics, "warn", DegradedWarnings)) =>
        extResult.extracao = "parcial"

\* A DOCX whose table yields no text, read from its paragraphs instead.
C22_Witness ==
    /\ extResult.done
    /\ extResult.formato = "docx_text_report_v1"
    /\ Len(extResult.rows) >= 1
    /\ hasCode(extResult.diagnostics, "warn", {"DOCX_TABLE_EXTRACT_FALLBACK_TEXT"})
    /\ extResult.extracao = "parcial"

(***************************************************************************)
(* Properties of the column-separated strategy                             *)
(***************************************************************************)
\* parseTextReport ran the column-separated strategy on the document.
ColunasExecutou ==
    /\ textResult.done
    /\ parseStandardFormat(text).rows = <<>>

\* The two lists as the strategy collected them.
ListasColetadas == colunasLoop(text, 1, textoInicio)

\* C23: whenever the column-separated strategy runs and its list of keys and
\* its list of values differ in length, the diagnostics returned contain the
\* warning TEXT_COLUMN_MISMATCH.
C23_MismatchReported ==
    (/\ ColunasExecutou
     /\ Len(ListasColetadas.matriculas) # Len(ListasColetadas.valoresData)) =>
        hasCode(textResult.diagnostics, "warn", {"TEXT_COLUMN_MISMATCH"})

(***************************************************************************)
(* Properties of the parsers: where the key of a row comes from            *)
(***************************************************************************)
\* The employee keys written on a line outside any tax-id.
ChavesDaLinha(line) ==
    {line[k].key : k \in {j \in 1..Len(line) : line[j].t = "key"}}

ChaveDaPropriaLinha(row) == row.matricula \in ChavesDaLinha(text[row.rawRef.linha])

\* C24: no row of extractFromCsvReport or parseTextReport has a key taken
\* from inside a tax-id of its line: the key of a row is an employee key
\* written on the line of the row, or, for a row the column-separated
\* strategy paired, on a bare-key line of the document.
C24_NoKeyFromTaxId ==
    /\ csvResult.done =>
          \A i \in 1..Len(csvResult.rows) : ChaveDaPropriaLinha(csvResult.rows[i])
    /\ textResult.done =>
          \A i \in 1..Len(textResult.rows) :
              \/ ChaveDaPropriaLinha(textResult.rows[i])
              \/ /\ parseStandardFormat(text).rows = <<>>
                 /\ \E k \in 1..Len(text) :
                       textResult.rows[i].matricula \in ChavesDaLinha(text[k])

(***************************************************************************)
(* detectSheetColumns (connectors/sheet). A cell is null, a number (kept   *)
(* in centavos) or a string: an employee key, a tax-id, or other text      *)
(* given by its characters. Columns are numbered from 1.                   *)
(***************************************************************************)
\* const MAX_REASONABLE_VALUE = 50000, in centavos
MAX_REASONABLE_VALUE == 5000000

CelNull == [t |-> "null"]

CelKey(k) == [t |-> "key", key |-> k]

CelCpf == [t |-> "cpf", tail |-> <<393, 99>>]

CelNum(n) == [t |-> "num", n |-> n]

CelStr(raw) == [t |-> "str", raw |-> raw]

\* cellLooksCpf(cell)
cellLooksCpf(cell) == cell.t = "cpf"

\* parseCellAsMatricula(cell): MATRICULA_REGEX is not anchored, so it also
\* finds the last two groups of a tax-id.
parseCellAsMatricula(cell) ==
    IF cell.t \in {"key", "cpf"} THEN <<KeyShape(cell)>> ELSE <<>>

\* The value before the check against MAX_REASONABLE_VALUE.
valorBruto(cell) ==
    IF cell.t = "num" THEN <<cell.n>>
    ELSE IF cell.t = "str" THEN parseBRL(cell.raw)
    ELSE <<>>

limitar(value) ==
    IF value # <<>> /\ value[1] > MAX_REASONABLE_VALUE THEN <<>> ELSE value

\* parseCellAsMonetary(cell)
parseCellAsMonetary(cell) ==
    IF cell.t = "null" \/ cellLooksCpf(cell) THEN <<>>
    ELSE limitar(valorBruto(cell))

\* /^\d{1,3}$/.test(String(cell).trim())
isEventoCell(cell) ==
    \/ cell.t = "num" /\ cell.n >= 0 /\ cell.n <= 99900 /\ cell.n % 100 = 0
    \/ /\ cell.t = "str"
       /\ Len(cell.raw) \in 1..3
       /\ \A j \in 1..Len(cell.raw) : IsDigit(cell.raw[j])

\* valor !== null && valor >= 0
isValorHit(cell) ==
    parseCellAsMonetary(cell) # <<>> /\ parseCellAsMonetary(cell)[1] >= 0

\* Math.max(...rows.map((r) => r.length))
maxColsDe(rows) ==
    CHOOSE n \in 0..Len(rows[1]) + Len(rows[Len(rows)]) + 8 :
        /\ \A r \in 1..Len(rows) : Len(rows[r]) <= n
        /\ \E r \in 1..Len(rows) : Len(rows[r]) = n

LinhasCom(rows, col) == {r \in 1..Len(rows) : col <= Len(rows[r])}

matriculaHitsDe(rows, col) ==
    Cardinality({r \in LinhasCom(rows, col) :
                    parseCellAsMatricula(rows[r][col]) # <<>>})

valorHitsDe(rows, col) ==
    Cardinality({r \in LinhasCom(rows, col) : isValorHit(rows[r][col])})

eventoHitsDe(rows, col) ==
    Cardinality({r \in LinhasCom(rows, col) : isEventoCell(rows[r][col])})

RECURSIVE valorSumsDe(_, _)
valorSumsDe(rows, col) ==
    IF rows = <<>> THEN 0
    ELSE (IF col <= Len(Head(rows)) /\ isValorHit(Head(rows)[col])
          THEN parseCellAsMonetary(Head(rows)[col])[1]
          ELSE 0) + valorSumsDe(Tail(rows), col)

\* indexOfMax(arr): the first index that holds the largest value.
indexOfMax(arr) ==
    CHOOSE i \in 1..Len(arr) :
        /\ \A j \in 1..Len(arr) : arr[j] <= arr[i]
        /\ \A j \in 1..(i - 1) : arr[j] < arr[i]

\* The columns with a monetary hit, the key column excluded.
valorCandidatesDe(rows, maxCols, matriculaCol) ==
    {col \in 1..maxCols : col # matriculaCol /\ valorHitsDe(rows, col) > 0}

\* sort by sum, larger first, then by hits, larger first; the sort is stable.
antesDe(rows, a, b) ==
    \/ valorSumsDe(rows, a) > valorSumsDe(rows, b)
    \/ /\ valorSumsDe(rows, a) = valorSumsDe(rows, b)
       /\ \/ valorHitsDe(rows, a) > valorHitsDe(rows, b)
          \/ valorHitsDe(rows, a) = valorHitsDe(rows, b) /\ a < b

antesDePorHits(rows, a, b) ==
    \/ valorHitsDe(rows, a) > valorHitsDe(rows, b)
    \/ valorHitsDe(rows, a) = valorHitsDe(rows, b) /\ a < b

comparar(rows, a, b) == antesDe(rows, a, b)

\* valorCandidates[0].col after the sort
primeiroCandidato(rows, candidates) ==
    CHOOSE c \in candidates : \A d \in candidates \ {c} : comparar(rows, c, d)

eventoHitsSem(rows, maxCols, matriculaCol, valorCol) ==
    [col \in 1..maxCols |->
        IF col \in {matriculaCol, valorCol} THEN -1 ELSE eventoHitsDe(rows, col)]

confidenceSheet(matriculaCount, valorCount, totalRows) ==
    IF 10 * matriculaCount >= 7 * totalRows /\ 10 * valorCount >= 7 * totalRows
    THEN "high"
    ELSE IF 10 * matriculaCount >= 4 * totalRows
            /\ 10 * valorCount >= 4 * totalRows
    THEN "medium"
    ELSE "low"

SheetNull == [done |-> TRUE, nulo |-> TRUE]

sheetResultado(rows, matriculaCol, valorCol, eventoHits) ==
    [done |-> TRUE, nulo |-> FALSE,
     matriculaCol |-> matriculaCol,
     valorCol |-> valorCol,
     eventoCol |-> IF eventoHits[indexOfMax(eventoHits)] > 0
                   THEN <<indexOfMax(eventoHits)>>
                   ELSE <<>>,
     confidence |-> confidenceSheet(matriculaHitsDe(rows, matriculaCol),
                                    valorHitsDe(rows, valorCol), Len(rows))]

sheetComValor(rows, maxCols, matriculaCol, valorCol) ==
    sheetResultado(rows, matriculaCol, valorCol,
                   eventoHitsSem(rows, maxCols, matriculaCol, valorCol))

sheetComMatricula(rows, maxCols, matriculaCol) ==
    IF matriculaHitsDe(rows, matriculaCol) = 0 THEN SheetNull
    ELSE IF valorCandidatesDe(rows, maxCols, matriculaCol) = {} THEN SheetNull
    ELSE sheetComValor(rows, maxCols, matriculaCol,
            primeiroCandidato(rows, valorCandidatesDe(rows, maxCols, matriculaCol)))

sheetComColunas(rows, maxCols) ==
    IF maxCols = 0 THEN SheetNull
    ELSE sheetComMatricula(rows, maxCols,
            indexOfMax([col \in 1..maxCols |-> matriculaHitsDe(rows, col)]))

\* detectSheetColumns(rows): ColumnDetectionResult | null
detectSheetColumns(rows) ==
    IF Len(rows) = 0 THEN SheetNull ELSE sheetComColunas(rows, maxColsDe(rows))

(***************************************************************************)
(* Worksheets: every grid of up to MaxSheetRows rows of up to MaxSheetCols *)
(* cells, and some grids with cells no amount is read from.                *)
(***************************************************************************)
MaxSheetRows == 2

MaxSheetCols == 3

SheetCells ==
    {CelNull, CelKey(<<85, 1>>), CelCpf, CelStr(Raw000), CelStr(Raw100),
     CelNum(13500)}

OddCells ==
    {CelStr(<<"0", "0", "2">>), CelNum(-500), CelNum(6000000), CelNum(10050),
     CelNum(9800)}

OddSheets ==
    {<<<<CelKey(<<85, 1>>), a, b>>, <<CelKey(<<99, 1>>), c, CelStr(Raw100)>>>> :
        a \in OddCells, b \in OddCells, c \in OddCells}

SheetInputs ==
    SeqsUpTo(SeqsUpTo(SheetCells, MaxSheetCols), MaxSheetRows) \cup OddSheets

InitSheet ==
    /\ sheetRows \in SheetInputs
    /\ columnResult = Pending
    /\ IdleReconcile
    /\ IdleParsing
    /\ IdleRouter
    /\ IdleDelimiter
    /\ IdleApp

DetectSheetColumns ==
    /\ ~columnResult.done
    /\ columnResult' = detectSheetColumns(sheetRows)
    /\ UNCHANGED <<coreVars, delimVars, sheetRows, uiVars>>

NextSheet == DetectSheetColumns

SpecSheet == InitSheet /\ [][NextSheet]_vars

ColunasDaPlanilha ==
    IF sheetRows = <<>> THEN {} ELSE 1..maxColsDe(sheetRows)

TemChave == \E col \in ColunasDaPlanilha : matriculaHitsDe(sheetRows, col) > 0

ColunaDeChave ==
    indexOfMax([col \in ColunasDaPlanilha |-> matriculaHitsDe(sheetRows, col)])

SemColunaDeValor ==
    \A col \in ColunasDaPlanilha \ {ColunaDeChave} :
        valorHitsDe(sheetRows, col) = 0

ColunasEscolhidas(soma(_, _)) ==
    /\ \A col \in ColunasDaPlanilha :
          matriculaHitsDe(sheetRows, col)
              <= matriculaHitsDe(sheetRows, columnResult.matriculaCol)
    /\ columnResult.valorCol \in ColunasDaPlanilha \ {columnResult.matriculaCol}
    /\ \A col \in ColunasDaPlanilha \ {columnResult.matriculaCol} :
          soma(sheetRows, col) <= soma(sheetRows, columnResult.valorCol)
    /\ columnResult.eventoCol # <<>> =>
          columnResult.eventoCol[1] \in
              ColunasDaPlanilha \ {columnResult.matriculaCol, columnResult.valorCol}

\* The sum of every value parseCellAsMonetary reads in the column, the
\* negative ones included.
RECURSIVE somaDeTodos(_, _)
somaDeTodos(rows, col) ==
    IF rows = <<>> THEN 0
    ELSE (IF col <= Len(Head(rows)) /\ parseCellAsMonetary(Head(rows)[col]) # <<>>
          THEN parseCellAsMonetary(Head(rows)[col])[1]
          ELSE 0) + somaDeTodos(Tail(rows), col)

\* C25 as stated: detectSheetColumns returns null when no column has an
\* employee-key hit; otherwise it returns the column with the most key hits
\* as key column, a different column with the highest sum of parsed monetary
\* values among the remaining columns as amount column, and an event column
\* that, when reported, differs from both.
C25_ColumnsWheneverKeyed ==
    columnResult.done =>
        IF TemChave
        THEN ~columnResult.nulo /\ ColunasEscolhidas(somaDeTodos)
        ELSE columnResult.nulo

\* C25, amended: detectSheetColumns returns null exactly when no column has
\* an employee-key hit or no column besides the key column holds a
\* non-negative amount of at most MAX_REASONABLE_VALUE; otherwise the key
\* column has the most key hits, the amount column is a different column
\* with at least one such amount and the highest sum of such amounts among
\* the remaining columns, whatever their hit counts, and the event column,
\* when reported, differs from both.
C25_ColumnsChosen ==
    columnResult.done =>
        /\ columnResult.nulo <=> (~TemChave \/ SemColunaDeValor)
        /\ ~columnResult.nulo =>
              /\ ColunasEscolhidas(valorSumsDe)
              /\ valorHitsDe(sheetRows, columnResult.valorCol) > 0

\* A worksheet whose chosen amount column has fewer monetary hits than
\* another remaining column.
C25_Witness ==
    /\ columnResult.done
    /\ ~columnResult.nulo
    /\ \E col \in ColunasDaPlanilha \ {columnResult.matriculaCol} :
          valorHitsDe(sheetRows, col)
              > valorHitsDe(sheetRows, columnResult.valorCol)

\* The lines on which the loop looks for an employee key and finds one:
\* the non-blank lines without an event marker that hold a key.
LinhasComChave(lines, matriculaDe(_)) ==
    {i \in 1..Len(lines) :
        /\ lines[i] # <<>>
        /\ IndexOfType(lines[i], {"evento"}) = 0
        /\ matriculaDe(lines[i]) # <<>>}

\* The details of the summary diagnostic among diagnostics.
ResumoDe(diagnostics, codes) ==
    diagnostics[CHOOSE j \in 1..Len(diagnostics) :
                    diagnostics[j].code \in codes].details

ResumoCsv == ResumoDe(csvResult.diagnostics, {"CSV_PARSE_SUMMARY"})

ResumoPadrao ==
    ResumoDe(parseStandardFormat(text).diagnostics,
             {"TEXT_ZERO_ROWS", "TEXT_PARSE_SUMMARY"})

\* C26: at the end of extractFromCsvReport, and of the standard strategy of
\* parseTextReport, the number of lines on which an employee key was
\* detected equals the number of emitted rows plus the discardedNoValue
\* count of the summary diagnostic.
C26_NoLineLostSilently ==
    /\ csvResult.done =>
          /\ Cardinality(LinhasComChave(text, extractMatricula))
                = Len(csvResult.rows) + ResumoCsv.discardedNoValue
          /\ ResumoCsv.dataLinesDetected
                = Cardinality(LinhasComChave(text, extractMatricula))
    /\ textResult.done =>
          /\ Cardinality(LinhasComChave(text, matriculaTexto))
                = Len(parseStandardFormat(text).rows)
                    + ResumoPadrao.discardedNoValue
          /\ ResumoPadrao.dataLinesDetected
                = Cardinality(LinhasComChave(text, matriculaTexto))

\* A report with an emitted row and a discarded line, read by both.
C26_Witness ==
    /\ csvResult.done
    /\ textResult.done
    /\ Len(csvResult.rows) > 0
    /\ ResumoCsv.discardedNoValue > 0
    /\ Len(parseStandardFormat(text).rows) > 0
    /\ ResumoPadrao.discardedNoValue > 0

Delimitadores == {SUPPORTED_DELIMITERS[j] : j \in 1..Len(SUPPORTED_DELIMITERS)}

\* The occurrences of char in line, quoted or not.
Ocorrencias(line, char) == Cardinality({j \in 1..Len(line) : line[j] = char})

AspasDobradas(line) ==
    \E j \in 1..(Len(line) - 1) : line[j] = Quote /\ line[j + 1] = Quote

\* C27: for every line and every supported delimiter, splitCsvLine returns
\* exactly one more field than countOutsideQuotes counts delimiters outside
\* quoted spans.
C27_SplitterAgreesWithDetector ==
    splitFields.done =>
        \A i \in 1..Len(csvLines) :
            /\ \A d \in Delimitadores :
                  Len(splitCsvLine(csvLines[i], d))
                      = countOutsideQuotes(csvLines[i], d) + 1
            /\ Len(splitFields.linhas[i])
                  = countOutsideQuotes(csvLines[i], delimiterResult.delimiter) + 1

\* A split file with a delimiter inside quotes and a doubled quote.
C27_Witness ==
    /\ splitFields.done
    /\ \E i \in 1..Len(csvLines) : \E d \in Delimitadores :
          countOutsideQuotes(csvLines[i], d) < Ocorrencias(csvLines[i], d)
    /\ \E i \in 1..Len(csvLines) : AspasDobradas(csvLines[i])

\* The orders in which the rows of one input file can be listed.
PermutacoesDe(rows) ==
    {[i \in 1..Len(rows) |-> rows[f[i]]] : f \in Permutations(1..Len(rows))}

\* C28: the summary counts of reconcile are the same for every order of the
\* rows within the bank input and within the authority input.
C28_CountsOrderInsensitive ==
    recResult.done =>
        \A bank \in PermutacoesDe(bankRows) :
            \A pref \in PermutacoesDe(prefRows) :
                reconcile(bank, pref).summary.counts = Counts

(***************************************************************************)
(* The screens of App (ui/App.tsx). uploadState is whether both files are  *)
(* parsed with rows (canGenerate); appResult and excelBlob are whether a   *)
(* result and a workbook are set. pipelines holds every call of            *)
(* runPipeline scheduled so far: where it waits (pc), the upload data its  *)
(* closure holds, the workbook it exported, and whether a cancellation     *)
(* happened since it was scheduled (stale, not a field of the program).    *)
(***************************************************************************)
MaxRuns == 2

EmCurso(run) == run.pc # "done"

\* Every call of runPipeline still in progress has been cancelled.
cancelar(runs) ==
    [i \in 1..Len(runs) |->
        IF EmCurso(runs[i]) THEN [runs[i] EXCEPT !.stale = TRUE] ELSE runs[i]]

InitApp ==
    /\ IdleApp
    /\ IdleReconcile
    /\ IdleParsing
    /\ IdleRouter
    /\ IdleDelimiter
    /\ IdleSheet

\* handleBankParsed / handlePrefParsed: the files become, or stop being,
\* parsed with rows.
HandleParsed ==
    /\ screen = "upload"
    /\ uploadState' = ~uploadState
    /\ UNCHANGED <<screen, appResult, excelBlob, percent, currentStep,
                   cancelledRef, pipelines, coreVars, delimVars, sheetVars>>

\* handleGenerate, from the button of the upload screen.
HandleGenerate ==
    /\ screen = "upload"
    /\ uploadState
    /\ Len(pipelines) < MaxRuns
    /\ percent' = 0
    /\ currentStep' = 0
    /\ screen' = "processing"
    /\ pipelines' = Append(pipelines, [pc |-> "timer", dados |-> uploadState,
                                       blob |-> FALSE, stale |-> FALSE])
    /\ UNCHANGED <<uploadState, appResult, excelBlob, cancelledRef,
                   coreVars, delimVars, sheetVars>>

\* handleBack, from Cancel or Back of the processing screen.
HandleBack ==
    /\ screen = "processing"
    /\ cancelledRef' = TRUE
    /\ screen' = "upload"
    /\ percent' = 0
    /\ currentStep' = 0
    /\ appResult' = FALSE
    /\ excelBlob' = FALSE
    /\ pipelines' = cancelar(pipelines)
    /\ UNCHANGED <<uploadState, coreVars, delimVars, sheetVars>>

\* handleNewUpload, from the result screen, which renders with a result.
HandleNewUpload ==
    /\ screen = "result"
    /\ appResult
    /\ cancelledRef' = TRUE
    /\ screen' = "upload"
    /\ uploadState' = FALSE
    /\ percent' = 0
    /\ currentStep' = 0
    /\ appResult' = FALSE
    /\ excelBlob' = FALSE
    /\ pipelines' = cancelar(pipelines)
    /\ UNCHANGED <<coreVars, delimVars, sheetVars>>

Retornar(i) == pipelines' = [pipelines EXCEPT ![i].pc = "done"]

Avancar(i, pc) == pipelines' = [pipelines EXCEPT ![i].pc = pc]

\* The timer of handleGenerate fires: runPipeline up to its first await.
StartPipeline(i) ==
    /\ pipelines[i].pc = "timer"
    /\ IF ~pipelines[i].dados
       THEN /\ Retornar(i)
            /\ UNCHANGED <<uiState, cancelledRef>>
       ELSE /\ cancelledRef' = FALSE
            /\ currentStep' = 0
            /\ percent' = 10
            /\ Avancar(i, "step0")
            /\ UNCHANGED <<screen, uploadState, appResult, excelBlob>>
    /\ UNCHANGED <<coreVars, delimVars, sheetVars>>

\* runPipeline resumes after `await delay(...)` of steps 0 to 2.
NextStep(i) ==
    /\ pipelines[i].pc \in {"step0", "step1", "step2"}
    /\ IF cancelledRef
       THEN /\ Retornar(i)
            /\ UNCHANGED uiState
       ELSE /\ currentStep' = (CASE pipelines[i].pc = "step0" -> 1
                                 [] pipelines[i].pc = "step1" -> 2
                                 [] pipelines[i].pc = "step2" -> 3)
            /\ percent' = (CASE pipelines[i].pc = "step0" -> 25
                             [] pipelines[i].pc = "step1" -> 30
                             [] pipelines[i].pc = "step2" -> 60)
            /\ Avancar(i, CASE pipelines[i].pc = "step0" -> "step1"
                            [] pipelines[i].pc = "step1" -> "step2"
                            [] pipelines[i].pc = "step2" -> "step3")
            /\ UNCHANGED <<screen, uploadState, appResult, excelBlob>>
    /\ UNCHANGED <<cancelledRef, coreVars, delimVars, sheetVars>>

\* After the delay of step 3: step 4 up to `await exporter.export(...)`.
StartExport(i) ==
    /\ pipelines[i].pc = "step3"
    /\ IF cancelledRef
       THEN /\ Retornar(i)
            /\ UNCHANGED uiState
       ELSE /\ currentStep' = 4
            /\ percent' = 75
            /\ Avancar(i, "export")
            /\ UNCHANGED <<screen, uploadState, appResult, excelBlob>>
    /\ UNCHANGED <<cancelledRef, coreVars, delimVars, sheetVars>>

\* The export settles, with a workbook or with an error.
ExportSettled(i) ==
    /\ pipelines[i].pc = "export"
    /\ \E blob \in BOOLEAN :
          pipelines' = [pipelines EXCEPT ![i].pc = "step4", ![i].blob = blob]
    /\ percent' = 90
    /\ UNCHANGED <<screen, uploadState, appResult, excelBlob, currentStep,
                   cancelledRef, coreVars, delimVars, sheetVars>>

\* After the delay of step 4: the result and the workbook are set.
Finalizar(i) ==
    /\ pipelines[i].pc = "step4"
    /\ IF cancelledRef
       THEN /\ Retornar(i)
            /\ UNCHANGED uiState
       ELSE /\ percent' = 100
            /\ appResult' = TRUE
            /\ excelBlob' = pipelines[i].blob
            /\ Avancar(i, "final")
            /\ UNCHANGED <<screen, uploadState, currentStep>>
    /\ UNCHANGED <<cancelledRef, coreVars, delimVars, sheetVars>>

\* After the last delay: the result screen.
ShowResult(i) ==
    /\ pipelines[i].pc = "final"
    /\ IF cancelledRef
       THEN UNCHANGED uiState
       ELSE /\ screen' = "result"
            /\ UNCHANGED <<uploadState, appResult, excelBlob, percent,
                           currentStep>>
    /\ Retornar(i)
    /\ UNCHANGED <<cancelledRef, coreVars, delimVars, sheetVars>>

NextApp ==
    \/ HandleParsed
    \/ HandleGenerate
    \/ HandleBack
    \/ HandleNewUpload
    \/ \E i \in 1..Len(pipelines) : StartPipeline(i)
    \/ \E i \in 1..Len(pipelines) : NextStep(i)
    \/ \E i \in 1..Len(pipelines) : StartExport(i)
    \/ \E i \in 1..Len(pipelines) : ExportSettled(i)
    \/ \E i \in 1..Len(pipelines) : Finalizar(i)
    \/ \E i \in 1..Len(pipelines) : ShowResult(i)

SpecApp == InitApp /\ [][NextApp]_vars

\* A call of runPipeline that was cancelled takes a step.
PassoDeCancelado(i) ==
    /\ i <= Len(pipelines')
    /\ pipelines[i].stale
    /\ pipelines'[i] # pipelines[i]

\* C29: cancelling stops the pipeline for every interleaving of Generate,
\* Back and the timers: a call of runPipeline that was cancelled, whether
\* before its delayed start or while waiting, changes nothing of what the
\* screens show from then on.
C29_CancelStopsPipeline ==
    [][\A i \in 1..Len(pipelines) : PassoDeCancelado(i) => UNCHANGED uiState]_vars

ItemsDeStatus(m, status) == {i \in ItemsOf(m) : Items[i].status = status}

\* C30: for every key, the result never holds both a bank-only and an
\* authority-only item, and the number of items of the key is the larger of
\* its bank row count and its authority row count.
C30_ItemsPerKey ==
    recResult.done =>
        \A m \in Matriculas :
            /\ ItemsDeStatus(m, "so_no_banco") = {}
                  \/ ItemsDeStatus(m, "so_na_prefeitura") = {}
            /\ Cardinality(ItemsOf(m))
                  = Max(Len(ValoresDe(bankRows, m)), Len(ValoresDe(prefRows, m)))

\* A key with two bank rows and one authority row: a divergent pair and a
\* bank-only item.
C30_Witness ==
    /\ recResult.done
    /\ \E m \in Matriculas :
          /\ Len(ValoresDe(bankRows, m)) = 2
          /\ Len(ValoresDe(prefRows, m)) = 1
          /\ ItemsDeStatus(m, "divergente") # {}
          /\ ItemsDeStatus(m, "so_no_banco") # {}

====
